---- MODULE Spec2Model ----
(***************************************************************************)
(* A model of the zkc-state key-value service: a sparse Merkle tree kept   *)
(* in two MongoDB collections per contract (merkle records and data-hash   *)
(* records) and served through the KvPair RPCs of src/src/service.rs.      *)
(*                                                                         *)
(* 32-byte strings (hashes, leaf data words) are modelled as flat          *)
(* sequences of naturals in prefix notation, so that two strings are equal *)
(* exactly when they were built the same way:                              *)
(*   <<0, lo, hi>>          the literal with 16-byte halves lo and hi      *)
(*   <<n + 1>> \o x1..xn    the Poseidon sponge output over x1..xn         *)
(* The sponge is therefore collision free in the model.                    *)
(***************************************************************************)
EXTENDS Integers, Sequences, FiniteSets, TLC

VARIABLES merkle, datahash, last, calls

vars == <<merkle, datahash, last, calls>>

\* Height of the tree.  The program uses 20 (src/src/kvpair.rs:29); the
\* model keeps the same arithmetic on a smaller tree.
MERKLE_TREE_HEIGHT == 2

\* Number of RPCs served in one behaviour.
MaxCalls == 2

None == <<>>

Some(x) == <<x>>

RECURSIVE Pow2(_)
Pow2(n) == IF n = 0 THEN 1 ELSE 2 * Pow2(n - 1)

RECURSIVE ilog2(_)
ilog2(n) == IF n <= 1 THEN 0 ELSE 1 + ilog2(n \div 2)

FirstLeaf == Pow2(MERKLE_TREE_HEIGHT) - 1

LastLeaf == Pow2(MERKLE_TREE_HEIGHT + 1) - 2

(***************************************************************************)
(* Field elements and hashing.                                             *)
(***************************************************************************)
Lit(lo, hi) == <<0, lo, hi>>

Zero32 == Lit(0, 0)

\* A literal whose high half is 2 or more stands for an integer >= p.
BadFr == Lit(0, 2)

\* Fr::from_repr(bytes).is_some(): sponge outputs are always in the field.
from_repr_ok(v) == v[1] # 0 \/ v[3] < 2

RECURSIVE Flatten(_)
Flatten(frs) == IF frs = <<>> THEN <<>> ELSE Head(frs) \o Flatten(Tail(frs))

\* hasher.update(frs); hasher.squeeze().to_repr()
hash_field_elements(frs) == <<Len(frs) + 1>> \o Flatten(frs)

\* Hash::hash_children.  The code unwraps Fr::from_repr of both arguments and
\* panics when one is outside the field: callers test can_hash_children.
hash_children(left, right) == hash_field_elements(<<left, right>>)

can_hash_children(left, right) == from_repr_ok(left) /\ from_repr_ok(right)

\* Hash::hash_data on a 32-byte literal: two 16-byte halves, each padded with
\* 16 zero bytes.
hash_data(d) == hash_field_elements(<<Lit(d[2], 0), Lit(d[3], 0)>>)

\* Leaf data is a Vec<u8>: whole 32-byte words plus `tail` further bytes.
Data32(v) == [words |-> <<v>>, tail |-> 0]

ZeroData == Data32(Zero32)

\* poseidon::hash
hash(data_to_hash) ==
    IF data_to_hash.tail # 0
    THEN [st |-> "InvalidArgument"]
    ELSE IF \E k \in 1..Len(data_to_hash.words) :
                ~from_repr_ok(data_to_hash.words[k])
         THEN [st |-> "InvalidArgument"]
         ELSE [st |-> "Ok", hash |-> hash_field_elements(data_to_hash.words)]

\* The initialiser of DEFAULT_HASH_VEC: the hash it pushes k-th.
RECURSIVE default_hash(_)
default_hash(k) ==
    IF k = 0 THEN hash_data(Zero32)
    ELSE hash_children(default_hash(k - 1), default_hash(k - 1))

DEFAULT_HASH_VEC == [k \in 0..MERKLE_TREE_HEIGHT |-> default_hash(k)]

\* Hash::get_default_hash: Ok only for depth <= MERKLE_TREE_HEIGHT.
get_default_hash(depth) == DEFAULT_HASH_VEC[MERKLE_TREE_HEIGHT - depth]

(***************************************************************************)
(* Tree arithmetic (crate::merkle).                                        *)
(***************************************************************************)
leaf_check(index) == index >= FirstLeaf /\ index <= LastLeaf

get_node_type(index) ==
    IF leaf_check(index) THEN "NodeLeaf"
    ELSE IF index < FirstLeaf THEN "NodeNonLeaf" ELSE "NodeInvalid"

get_offset(index) == index - (Pow2(ilog2(index + 1)) - 1)

get_sibling_index(index) == IF index % 2 = 0 THEN index - 1 ELSE index + 1

RECURSIVE get_path(_)
get_path(index) ==
    IF index = 0 THEN <<>> ELSE Append(get_path((index - 1) \div 2), index)

(***************************************************************************)
(* Records.                                                                *)
(***************************************************************************)
MerkleRecord(index, h, left, right) ==
    [index |-> index, hash |-> h, left |-> left, right |-> right]

new_leaf(index, h) == MerkleRecord(index, h, Zero32, Zero32)

\* new_non_leaf storing the children in the wrong order: a variant that
\* StoredInternalRecordsHash must reject.
new_non_leaf_swapped(index, left, right) ==
    MerkleRecord(index, hash_children(left, right), right, left)

new_non_leaf(index, left, right) ==
    MerkleRecord(index, hash_children(left, right), left, right)

\* The child_hash of get_default_record taken at the record's own depth: a
\* variant that SparseDefaultFallback must reject.
default_child_hash_own_depth(height) == get_default_hash(height)

\* The child_hash of get_default_record.
default_child_hash(height) ==
    IF height = MERKLE_TREE_HEIGHT THEN Zero32
    ELSE get_default_hash(height + 1)

default_record_with(index, default, child_hash) ==
    MerkleRecord(index, default, child_hash, child_hash)

default_record_at(index, height) ==
    IF height > MERKLE_TREE_HEIGHT
    THEN [st |-> "Merkle"]
    ELSE [st |-> "Ok",
          rec |-> default_record_with(index, get_default_hash(height),
                                      default_child_hash(height))]

\* MerkleRecord::get_default_record; an error for an index past the leaves.
get_default_record(index) == default_record_at(index, ilog2(index + 1))

DataHashRecord(h, data) == [hash |-> h, data |-> data]

DefaultDataHashRecord == DataHashRecord(default_hash(0), ZeroData)

(***************************************************************************)
(* The merkle collection: a sequence of documents in insertion order.      *)
(* oid 0 is the reserved object id of the current-root document; every     *)
(* other document has an object id the store generates (oid 1).            *)
(***************************************************************************)
Doc(oid, rec) ==
    [oid |-> oid, index |-> rec.index, hash |-> rec.hash,
     left |-> rec.left, right |-> rec.right]

ToRecord(doc) == MerkleRecord(doc.index, doc.hash, doc.left, doc.right)

get_current_root_object_id == 0

\* find_one: the first match in natural order, deserialised.
first_record(hit) == IF hit = <<>> THEN None ELSE Some(ToRecord(hit[1]))

\* find_one_merkle_record with the filter {index, hash}
find_one_merkle_record(m, index, h) ==
    first_record(SelectSeq(m, LAMBDA d : d.index = index /\ d.hash = h))

\* find_one_merkle_record with the filter {_id: current root object id}
find_root_document(m) ==
    first_record(SelectSeq(m, LAMBDA d : d.oid = get_current_root_object_id))

\* default_if_hash without the comparison of the hashes: a variant that
\* SetRootNeedsStoredRoot must reject.
default_if_any(default_record, h) ==
    IF default_record.st # "Ok" THEN [st |-> "Merkle"]
    ELSE [st |-> "Ok", rec |-> Some(default_record.rec)]

default_if_hash(default_record, h) ==
    IF default_record.st # "Ok" THEN [st |-> "Merkle"]
    ELSE IF default_record.rec.hash = h
         THEN [st |-> "Ok", rec |-> Some(default_record.rec)]
         ELSE [st |-> "Ok", rec |-> None]

record_or_default(record, index, h) ==
    IF record # None THEN [st |-> "Ok", rec |-> record]
    ELSE default_if_hash(get_default_record(index), h)

get_merkle_record(m, index, h) ==
    record_or_default(find_one_merkle_record(m, index, h), index, h)

ok_or_precondition(r) ==
    IF r.st # "Ok" THEN [st |-> r.st]
    ELSE IF r.rec = None THEN [st |-> "Precondition"]
    ELSE [st |-> "Ok", rec |-> r.rec[1]]

must_get_merkle_record(m, index, h) ==
    ok_or_precondition(get_merkle_record(m, index, h))

root_or_default(record) ==
    IF record # None THEN record ELSE Some(get_default_record(0).rec)

get_root_merkle_record(m) == root_or_default(find_root_document(m))

must_get_root_merkle_record(m) == get_root_merkle_record(m)[1]

\* The result of insert_merkle_record: Option::map_or evaluates its default
\* argument, the block holding insert_one, before it looks at `exists`, so the
\* document is inserted whether or not one exists.
inserted_or_existing(m, record, exists) ==
    [m |-> Append(m, Doc(1, record)),
     rec |-> IF exists = None THEN record ELSE exists[1]]

insert_merkle_record(m, record) ==
    inserted_or_existing(m, record,
        find_one_merkle_record(m, record.index, record.hash))

insert_non_leaf_node(m, index, left, right) ==
    insert_merkle_record(m, new_non_leaf(index, left, right))

RootDoc(record) ==
    Doc(get_current_root_object_id,
        MerkleRecord(0, record.hash, record.left, record.right))

RootPosition(m) ==
    CHOOSE j \in 1..Len(m) : m[j].oid = get_current_root_object_id

\* update_root_merkle_record as an insert_one without the upsert filter: a
\* variant that RootSentinelUnique must reject.
update_root_by_insert(m, record) == Append(m, RootDoc(record))

\* update_root_merkle_record filtering on {index: 0} instead of the object
\* id: a variant that AppendOnly must reject.
update_root_by_index(m, record) ==
    IF \A j \in 1..Len(m) : m[j].index # 0
    THEN Append(m, RootDoc(record))
    ELSE [m EXCEPT ![CHOOSE j \in 1..Len(m) :
                        /\ m[j].index = 0
                        /\ \A k \in 1..(j - 1) : m[k].index # 0] =
                     Doc(@.oid, MerkleRecord(0, record.hash, record.left,
                                             record.right))]

\* update_one({_id: root id}, {$set: {index: 0, hash, left, right}}, upsert)
update_root_merkle_record(m, record) ==
    IF \A j \in 1..Len(m) : m[j].oid # get_current_root_object_id
    THEN Append(m, RootDoc(record))
    ELSE [m EXCEPT ![RootPosition(m)] = RootDoc(record)]

(***************************************************************************)
(* The data-hash collection: a sequence of documents in insertion order.   *)
(***************************************************************************)
first_datahash(hit) == IF hit = <<>> THEN None ELSE Some(hit[1])

find_one_datahash_record(dh, h) ==
    first_datahash(SelectSeq(dh, LAMBDA d : d.hash = h))

\* insert_datahash_record: the same eager map_or as insert_merkle_record.
datahash_inserted_or_existing(dh, record, exists) ==
    [dh |-> Append(dh, record),
     rec |-> IF exists = None THEN record ELSE exists[1]]

insert_datahash_record(dh, record) ==
    datahash_inserted_or_existing(dh, record,
        find_one_datahash_record(dh, record.hash))

\* get_datahash_record without the default record: a variant that
\* EmptyStoreReadsDefaults must reject.
get_datahash_record_stored(dh, h) == find_one_datahash_record(dh, h)

get_datahash_record(dh, h) ==
    IF h = DefaultDataHashRecord.hash THEN Some(DefaultDataHashRecord)
    ELSE find_one_datahash_record(dh, h)

datahash_or_precondition(record) ==
    IF record = None THEN [st |-> "Precondition"]
    ELSE [st |-> "Ok", rec |-> record[1]]

must_get_datahash_record(dh, h) ==
    datahash_or_precondition(get_datahash_record(dh, h))

(***************************************************************************)
(* The Merkle engine.                                                      *)
(***************************************************************************)
MerkleProof(source, root, assist, index) ==
    [source |-> source, root |-> root, assist |-> assist, index |-> index]

RECURSIVE walk_path(_, _, _, _, _, _)

\* walk_step pushing the hash of the child instead of its sibling's: a
\* variant that SetLeafTwiceSameRoot must reject.
walk_step_child_hash(m, paths, k, child, sibling_node, next_node, assist) ==
    IF sibling_node.st # "Ok" THEN [st |-> sibling_node.st]
    ELSE IF next_node.st # "Ok" THEN [st |-> next_node.st]
    ELSE walk_path(m, paths, k + 1, child, next_node.rec,
                   Append(assist, next_node.rec.hash))

\* The end of one iteration of the `for child in paths` loop of
\* get_leaf_and_proof: `?` on both reads, then acc, acc_node and assist.
walk_step(m, paths, k, child, sibling_node, next_node, assist) ==
    IF sibling_node.st # "Ok" THEN [st |-> sibling_node.st]
    ELSE IF next_node.st # "Ok" THEN [st |-> next_node.st]
    ELSE walk_path(m, paths, k + 1, child, next_node.rec,
                   Append(assist, sibling_node.rec.hash))

\* The reads of one iteration: the sibling first, then the child.
walk_child(m, paths, k, child, is_left_child, acc_node, assist) ==
    walk_step(m, paths, k, child,
        must_get_merkle_record(m, get_sibling_index(child),
            IF is_left_child THEN acc_node.right ELSE acc_node.left),
        must_get_merkle_record(m, child,
            IF is_left_child THEN acc_node.left ELSE acc_node.right),
        assist)

\* The loop of get_leaf_and_proof from the k-th element of paths on.
walk_path(m, paths, k, acc, acc_node, assist) ==
    IF k > Len(paths)
    THEN [st |-> "Ok", node |-> acc_node, assist |-> assist]
    ELSE walk_child(m, paths, k, paths[k], (acc + 1) * 2 = paths[k] + 1,
                    acc_node, assist)

proof_of_walk(w, root_hash, index) ==
    IF w.st # "Ok" THEN [st |-> w.st]
    ELSE [st |-> "Ok", node |-> w.node,
          proof |-> MerkleProof(w.node.hash, root_hash, w.assist, index)]

walk_from_root(m, index, root) ==
    proof_of_walk(walk_path(m, get_path(index), 1, 0, root, <<>>),
                  root.hash, index)

\* get_leaf_and_proof walking to whatever index it is given: a variant that
\* LeafIndexGate must reject.
get_leaf_and_proof_unchecked(m, index) ==
    walk_from_root(m, index, must_get_root_merkle_record(m))

get_leaf_and_proof(m, index) ==
    IF ~leaf_check(index) THEN [st |-> "Merkle"]
    ELSE walk_from_root(m, index, must_get_root_merkle_record(m))

RECURSIVE set_path(_, _, _, _, _)

\* The root update of one iteration of the loop of set_leaf_and_get_proof.
update_root_if_root(m, record) ==
    IF record.index = 0 THEN update_root_merkle_record(m, record) ELSE m

\* The writes of one iteration: the record, then the root pointer when the
\* record is at index 0.
\* set_parent moving the root pointer without storing the record: a variant
\* that SetLeafStoresAncestors must reject.
set_parent_unstored(m, i, p, assist, record) ==
    set_path(update_root_if_root(m, record), i + 1, record.hash, p, assist)

set_parent(m, i, p, assist, record) ==
    set_path(update_root_if_root(insert_merkle_record(m, record).m, record),
             i + 1, record.hash, p, assist)

set_children(m, i, p, assist, index, left, right) ==
    IF ~can_hash_children(left, right) THEN [st |-> "Panic", m |-> m]
    ELSE set_parent(m, i, p, assist, new_non_leaf(index, left, right))

set_level(m, i, cur_hash, p, assist, depth) ==
    set_children(m, i, p \div 2, assist, (p \div 2) + Pow2(depth) - 1,
        IF p % 2 = 1 THEN assist[depth + 1] ELSE cur_hash,
        IF p % 2 = 1 THEN cur_hash ELSE assist[depth + 1])

\* The `for i in 0..MERKLE_TREE_HEIGHT` loop of set_leaf_and_get_proof from
\* iteration i on.
set_path(m, i, cur_hash, p, assist) ==
    IF i >= MERKLE_TREE_HEIGHT THEN [st |-> "Ok", m |-> m]
    ELSE set_level(m, i, cur_hash, p, assist, MERKLE_TREE_HEIGHT - i - 1)

set_result(done, proof) == [st |-> done.st, m |-> done.m, proof |-> proof]

\* with_source leaving the source of the proof as read: a variant that
\* SetLeafProofIsPreWrite must reject.
with_source_kept(proof, h) == proof

\* proof.source = hash
with_source(proof, h) == [proof EXCEPT !.source = h]

set_leaf_with_proof(m, leaf, got) ==
    IF got.st # "Ok" THEN [st |-> got.st, m |-> m]
    ELSE set_result(set_path(insert_merkle_record(m, leaf).m, 0, leaf.hash,
                             get_offset(leaf.index), got.proof.assist),
                    with_source(got.proof, leaf.hash))

set_leaf_and_get_proof(m, leaf) ==
    set_leaf_with_proof(m, leaf, get_leaf_and_proof(m, leaf.index))

(***************************************************************************)
(* The service: one operator per RPC handler, from the collections and the *)
(* request to the collections after the call and the response.             *)
(***************************************************************************)
\* impl From<Error> for Status
StatusOf(kind) ==
    IF kind = "InvalidArgument" THEN "INVALID_ARGUMENT"
    ELSE IF kind \in {"Mongodb", "Merkle", "InconsistentData", "Precondition"}
         THEN "INTERNAL"
         ELSE kind

Failure(kind) == [status |-> StatusOf(kind), error |-> kind]

\* A panic aborts the handler's task; the client gets no response message.
Panicked == [status |-> "PANIC", error |-> "Panic"]

node_of_type(record, data, node_type) ==
    IF node_type = "NodeInvalid" THEN [st |-> "InconsistentData"]
    ELSE [st |-> "Ok",
          node |-> [index |-> record.index, hash |-> record.hash,
                    node_type |-> node_type,
                    node_data |->
                        IF node_type = "NodeLeaf"
                        THEN [kind |-> "Data", data |-> data]
                        ELSE [kind |-> "Children",
                              left_child_hash |-> record.left,
                              right_child_hash |-> record.right]]]

\* TryFrom<(MerkleRecord, DataHashRecord)> / TryFrom<MerkleRecord> for Node
to_node(record, data) ==
    node_of_type(record, data, get_node_type(record.index))

\* Proof { proof_type, proof: bincode::serialize(&proof) } when ProofV0 is asked
\* emit_proof whatever proof type is asked: a variant that
\* ProofGatedByProofType must reject.
emit_proof_always(proof_type, proof) ==
    Some([proof_type |-> "ProofV0", proof |-> proof])

emit_proof(proof_type, proof) ==
    IF proof_type = "ProofV0"
    THEN Some([proof_type |-> proof_type, proof |-> proof])
    ELSE None

get_root(m) ==
    [status |-> "OK", root |-> must_get_root_merkle_record(m).hash]

set_root_to(m, record) ==
    IF record.st # "Ok" THEN [m |-> m, resp |-> Failure(record.st)]
    ELSE [m |-> update_root_merkle_record(m, record.rec),
          resp |-> [status |-> "OK", root |-> record.rec.hash]]

set_root(m, h) == set_root_to(m, must_get_merkle_record(m, 0, h))

node_reply(node, proof) ==
    IF node.st # "Ok" THEN Failure(node.st)
    ELSE [status |-> "OK", node |-> node.node, proof |-> proof]

leaf_reply(record, datahash_record, proof) ==
    IF datahash_record.st # "Ok" THEN Failure(datahash_record.st)
    ELSE node_reply(to_node(record, datahash_record.rec.data), proof)

\* The tail of get_leaf, after (record, proof) has been found.
get_leaf_reply(dh, record, proof) ==
    leaf_reply(record, must_get_datahash_record(dh, record.hash), proof)

\* The first arm of the match of get_leaf: fetch by (index, hash).
get_leaf_fast(dh, record) ==
    IF record.st # "Ok" THEN Failure(record.st)
    ELSE get_leaf_reply(dh, record.rec, None)

\* The second arm: the full walk, and the check of the supplied hash.
\* get_leaf_walk without the check of the supplied hash: a variant that
\* ProvenLeafIsUnderRoot must reject.
get_leaf_walk_unchecked(dh, h, proof_type, got) ==
    IF got.st # "Ok" THEN Failure(got.st)
    ELSE get_leaf_reply(dh, got.node, emit_proof(proof_type, got.proof))

get_leaf_walk(dh, h, proof_type, got) ==
    IF got.st # "Ok" THEN Failure(got.st)
    ELSE IF h # None /\ h[1] # got.proof.source
         THEN Failure("InvalidArgument")
         ELSE get_leaf_reply(dh, got.node, emit_proof(proof_type, got.proof))

get_leaf(m, dh, index, h, proof_type) ==
    IF h # None /\ proof_type # "ProofV0"
    THEN get_leaf_fast(dh, must_get_merkle_record(m, index, h[1]))
    ELSE get_leaf_walk(dh, h, proof_type, get_leaf_and_proof(m, index))

payload_hashed(data, hashed) ==
    IF hashed.st # "Ok" THEN [st |-> hashed.st]
    ELSE [st |-> "Ok", data |-> data, hash |-> hashed.hash,
          should_insert |-> TRUE]

\* payload_stored taking a hash without a data-hash record for the hash of
\* empty data: a variant that SetLeafWithoutPayloadRejected must reject.
payload_stored_or_empty(h, record) ==
    [st |-> "Ok", data |-> IF record = None THEN ZeroData ELSE record[1].data,
     hash |-> h, should_insert |-> record = None]

payload_stored(h, record) ==
    IF record = None THEN [st |-> "InvalidArgument"]
    ELSE [st |-> "Ok", data |-> record[1].data, hash |-> h,
          should_insert |-> FALSE]

\* resolve_leaf_payload hashing the data again when a hash is supplied with
\* it: a variant that SetLeafUsesPayload must reject.
resolve_leaf_payload_rehashed(dh, data, h) ==
    IF data # None THEN payload_hashed(data[1], hash(data[1]))
    ELSE IF h # None THEN payload_stored(h[1], get_datahash_record(dh, h[1]))
    ELSE [st |-> "InvalidArgument"]

\* The match on (request.data, request.hash) of set_leaf.
resolve_leaf_payload(dh, data, h) ==
    IF data # None /\ h # None
    THEN [st |-> "Ok", data |-> data[1], hash |-> h[1], should_insert |-> TRUE]
    ELSE IF data # None THEN payload_hashed(data[1], hash(data[1]))
    ELSE IF h # None THEN payload_stored(h[1], get_datahash_record(dh, h[1]))
    ELSE [st |-> "InvalidArgument"]

set_leaf_reply(set, node, proof_type) ==
    IF set.st = "Panic" THEN Panicked
    ELSE IF set.st # "Ok" THEN Failure(set.st)
    ELSE node_reply(node, emit_proof(proof_type, set.proof))

set_leaf_done(dh, set, node, proof_type) ==
    [m |-> set.m, dh |-> dh, resp |-> set_leaf_reply(set, node, proof_type)]

insert_if(dh, should_insert, datahash_record) ==
    IF should_insert THEN insert_datahash_record(dh, datahash_record).dh
    ELSE dh

\* set_leaf after the payload is resolved: the data-hash record, the leaf,
\* the response.
set_leaf_payload(m, dh, index, payload, proof_type) ==
    IF payload.st # "Ok"
    THEN [m |-> m, dh |-> dh, resp |-> Failure(payload.st)]
    ELSE set_leaf_done(
             insert_if(dh, payload.should_insert,
                       DataHashRecord(payload.hash, payload.data)),
             set_leaf_and_get_proof(m, new_leaf(index, payload.hash)),
             to_node(new_leaf(index, payload.hash), payload.data),
             proof_type)

set_leaf(m, dh, index, data, h, proof_type) ==
    set_leaf_payload(m, dh, index, resolve_leaf_payload(dh, data, h),
                     proof_type)

get_non_leaf_reply(record) ==
    IF record.st # "Ok" THEN Failure(record.st)
    ELSE node_reply(to_node(record.rec, ZeroData), None)

get_non_leaf(m, index, h) ==
    get_non_leaf_reply(must_get_merkle_record(m, index, h))

\* Hash::validate_children
validate_children(h, left, right) == h = hash_children(left, right)

set_non_leaf_done(ins) ==
    [m |-> ins.m, resp |-> node_reply(to_node(ins.rec, ZeroData), None)]

set_non_leaf(m, index, h, left, right) ==
    IF ~can_hash_children(left, right) THEN [m |-> m, resp |-> Panicked]
    ELSE IF h # None /\ ~validate_children(h[1], left, right)
    THEN [m |-> m, resp |-> Failure("InvalidArgument")]
    ELSE set_non_leaf_done(insert_non_leaf_node(m, index, left, right))

hash_reply(hashed) ==
    IF hashed.st # "Ok" THEN Failure(hashed.st)
    ELSE [status |-> "OK", hash |-> hashed.hash]

poseidon_hash(data) == hash_reply(hash(data))

(***************************************************************************)
(* Requests.                                                               *)
(***************************************************************************)
OneData == Data32(Lit(1, 0))

DataInputs == {ZeroData, OneData}

\* poseidon::hash of OneData, a hash a client can compute beforehand.
OneHash == hash(OneData).hash

DefaultLeafHash == default_hash(0)

DefaultRootHash == default_hash(MERKLE_TREE_HEIGHT)

\* The last internal index, the first two leaves (siblings), the last leaf
\* and the index after it.
IndexInputs ==
    {FirstLeaf - 1, FirstLeaf, FirstLeaf + 1, LastLeaf, LastLeaf + 1}

ProofTypes == {"ProofEmpty", "ProofV0"}

Opt(S) == {None} \cup {Some(x) : x \in S}

\* Data of 31, 33 and 64 bytes.
OddLengthData ==
    {[words |-> <<>>, tail |-> 31], [words |-> <<Lit(1, 0)>>, tail |-> 1],
     [words |-> <<Lit(1, 0), Zero32>>, tail |-> 0]}

\* (data, hash) of a SetLeaf request: data only (of 32 bytes and of other
\* lengths), data with a hash that is not the hash of the data, data with a
\* hash outside the field, a hash only (known or not), and neither.
LeafPayloadInputs ==
    {<<Some(ZeroData), None>>, <<Some(OneData), None>>,
     <<Some(ZeroData), Some(OneHash)>>, <<Some(OneData), Some(BadFr)>>,
     <<None, Some(OneHash)>>, <<None, Some(DefaultLeafHash)>>,
     <<None, None>>}
    \cup {<<Some(d), None>> : d \in OddLengthData}

\* (left, right) of a SetNonLeaf request: the children of the default root,
\* children no record is stored for, and a child outside the field.
ChildInputs ==
    {<<default_hash(MERKLE_TREE_HEIGHT - 1),
       default_hash(MERKLE_TREE_HEIGHT - 1)>>,
     <<OneHash, DefaultLeafHash>>,
     <<BadFr, DefaultLeafHash>>}

\* The root, a leaf index and an index past the last leaf.
NonLeafIndexInputs == {0, FirstLeaf, LastLeaf + 1}

\* Hashes of the stored documents at the root index, which a client has seen
\* in earlier responses.
StoredRootHashes ==
    {merkle[k].hash : k \in {j \in 1..Len(merkle) : merkle[j].index = 0}}

\* Hashes of the stored documents at an index, which a client has seen in
\* earlier responses or can compute from them.
StoredHashesAt(index) ==
    {merkle[k].hash : k \in {j \in 1..Len(merkle) : merkle[j].index = index}}

RootHashInputs == StoredRootHashes \cup {DefaultRootHash, OneHash}

(***************************************************************************)
(* The state machine: the store after construction is empty (no document   *)
(* in either collection), and each step serves one RPC.  `last` is the     *)
(* request served last and the response to it.                             *)
(***************************************************************************)
Init ==
    /\ merkle = <<>>
    /\ datahash = <<>>
    /\ last = [req |-> [op |-> "None"], resp |-> [status |-> "None"]]
    /\ calls = 0

\* GetRoot writing the root it read back to the root pointer, which creates
\* the sentinel on a store without one: a variant that ReadsWriteNothing
\* must reject.
GetRootInitialising ==
    /\ calls < MaxCalls
    /\ last' = [req |-> [op |-> "GetRoot"], resp |-> get_root(merkle)]
    /\ calls' = calls + 1
    /\ merkle' = update_root_merkle_record(merkle,
                      must_get_root_merkle_record(merkle))
    /\ UNCHANGED datahash

GetRoot ==
    /\ calls < MaxCalls
    /\ last' = [req |-> [op |-> "GetRoot"], resp |-> get_root(merkle)]
    /\ calls' = calls + 1
    /\ UNCHANGED <<merkle, datahash>>

\* The store and the response after a handler that returned r to req.
Served(req, r, dh) ==
    /\ merkle' = r.m
    /\ datahash' = dh
    /\ last' = [req |-> req, resp |-> r.resp]
    /\ calls' = calls + 1

ServedLeaf(req, r) == Served(req, r, r.dh)

SetRoot(h) ==
    /\ calls < MaxCalls
    /\ Served([op |-> "SetRoot", hash |-> h], set_root(merkle, h), datahash)

GetLeaf(index, h, proof_type) ==
    /\ calls < MaxCalls
    /\ last' = [req |-> [op |-> "GetLeaf", index |-> index, hash |-> h,
                         proof_type |-> proof_type],
                resp |-> get_leaf(merkle, datahash, index, h, proof_type)]
    /\ calls' = calls + 1
    /\ UNCHANGED <<merkle, datahash>>

SetLeaf(index, data, h, proof_type) ==
    /\ calls < MaxCalls
    /\ ServedLeaf([op |-> "SetLeaf", index |-> index, data |-> data,
                   hash |-> h, proof_type |-> proof_type],
                  set_leaf(merkle, datahash, index, data, h, proof_type))

GetNonLeaf(index, h) ==
    /\ calls < MaxCalls
    /\ last' = [req |-> [op |-> "GetNonLeaf", index |-> index, hash |-> h],
                resp |-> get_non_leaf(merkle, index, h)]
    /\ calls' = calls + 1
    /\ UNCHANGED <<merkle, datahash>>

SetNonLeaf(index, h, left, right) ==
    /\ calls < MaxCalls
    /\ Served([op |-> "SetNonLeaf", index |-> index, hash |-> h,
               left |-> left, right |-> right],
              set_non_leaf(merkle, index, h, left, right), datahash)

PoseidonHash(data) ==
    /\ calls < MaxCalls
    /\ last' = [req |-> [op |-> "PoseidonHash", data |-> data],
                resp |-> poseidon_hash(data)]
    /\ calls' = calls + 1
    /\ UNCHANGED <<merkle, datahash>>

Next ==
    \/ GetRoot
    \/ \E h \in RootHashInputs : SetRoot(h)
    \/ \E index \in IndexInputs, pt \in ProofTypes :
          \E h \in Opt({DefaultLeafHash, OneHash} \cup StoredHashesAt(index)) :
              GetLeaf(index, h, pt)
    \/ \E index \in IndexInputs, payload \in LeafPayloadInputs,
          pt \in ProofTypes :
          SetLeaf(index, payload[1], payload[2], pt)
    \/ \E index \in NonLeafIndexInputs,
          h \in {DefaultRootHash, hash_children(OneHash, DefaultLeafHash)} :
          GetNonLeaf(index, h)
    \/ \E index \in NonLeafIndexInputs, c \in ChildInputs,
          h \in Opt({DefaultRootHash}) :
          SetNonLeaf(index, h, c[1], c[2])
    \/ \E data \in DataInputs \cup OddLengthData \cup {Data32(BadFr)} :
          PoseidonHash(data)

Spec == Init /\ [][Next]_vars

(***************************************************************************)
(* Views of a state that the properties below are stated with.             *)
(***************************************************************************)
Leaves == FirstLeaf..LastLeaf

\* The record the current-root pointer holds.
RootPointer == must_get_root_merkle_record(merkle)

\* What GetLeaf(index), without a hash and without a proof, answers.
ReadLeaf(m, dh, index) == get_leaf(m, dh, index, None, "ProofEmpty")

ReadsBack(resp, index, data) ==
    /\ resp.status = "OK"
    /\ resp.node.index = index
    /\ resp.node.node_type = "NodeLeaf"
    /\ resp.node.node_data.data = data

\* The verifier's fold of a proof: source with assist[H], then with
\* assist[H-1], ... , left or right by the bits of the leaf offset.
RECURSIVE fold_proof(_, _, _, _)
fold_proof(cur, assist, p, i) ==
    IF i >= MERKLE_TREE_HEIGHT THEN cur
    ELSE fold_proof(
             IF p % 2 = 1
             THEN hash_children(assist[MERKLE_TREE_HEIGHT - i], cur)
             ELSE hash_children(cur, assist[MERKLE_TREE_HEIGHT - i]),
             assist, p \div 2, i + 1)

Verify(proof) ==
    fold_proof(proof.source, proof.assist, get_offset(proof.index), 0)

StoredOids(m, oid) == {k \in 1..Len(m) : m[k].oid = oid}

WroteLeaf(l) == l.req.op = "SetLeaf" /\ l.resp.status = "OK"

LeafProofVerifies(got) ==
    /\ got.st = "Ok"
    /\ Len(got.proof.assist) = MERKLE_TREE_HEIGHT
    /\ got.proof.root = RootPointer.hash
    /\ Verify(got.proof) = RootPointer.hash

(***************************************************************************)
(* C1.  In every reachable state, for every leaf index l,                  *)
(* get_leaf_and_proof(l) succeeds with exactly MERKLE_TREE_HEIGHT assist   *)
(* hashes, and folding the leaf hash with them gives the hash of the       *)
(* current root pointer, which is also proof.root.                         *)
(* The code refutes it: SetNonLeaf stores a root record whose children     *)
(* are not stored, and SetRoot installs it.                                *)
(***************************************************************************)
EveryLeafProofVerifies ==
    \A l \in Leaves : LeafProofVerifies(get_leaf_and_proof(merkle, l))

WriteIsReadBack ==
    (WroteLeaf(last') /\ last'.req.data # None) =>
        /\ ReadsBack(ReadLeaf(merkle', datahash', last'.req.index),
                     last'.req.index, last'.req.data[1])
        /\ last'.resp.proof # None =>
               get_root(merkle').root = Verify(last'.resp.proof[1].proof)

OtherStepsKeepLeaf ==
    \A i \in Leaves :
        (/\ ReadLeaf(merkle, datahash, i).status = "OK"
         /\ last'.req.op # "SetRoot"
         /\ ~(last'.req.op = "SetLeaf" /\ last'.req.index = i))
        => ReadLeaf(merkle', datahash', i) = ReadLeaf(merkle, datahash, i)

(***************************************************************************)
(* C2.  Read-after-write: a successful SetLeaf(i, d) is followed by a      *)
(* state in which GetLeaf(i) answers the leaf i with data d and GetRoot    *)
(* answers the root the write's proof folds to; and a step that is neither *)
(* a SetLeaf on i nor a SetRoot does not change what GetLeaf(i) answers.   *)
(* The code refutes the first part: GetLeaf answers the first data-hash    *)
(* record of the leaf's hash, which need not hold d.                       *)
(***************************************************************************)
ReadAfterWrite == [][WriteIsReadBack /\ OtherStepsKeepLeaf]_vars

(***************************************************************************)
(* C3.  Idempotence of SetLeaf: when the request served is the SetLeaf     *)
(* request that was served just before it, the root pointer after the      *)
(* second call is the root pointer after the first.                        *)
(***************************************************************************)
SetLeafTwiceSameRoot ==
    [][(last.req.op = "SetLeaf" /\ last'.req = last.req)
       => RootPointer' = RootPointer]_vars

\* Two calls have been served, both the same successful data-only SetLeaf:
\* each left one leaf record and one data-hash record.
SetLeafServedTwice ==
    /\ calls = 2
    /\ WroteLeaf(last)
    /\ last.req.data # None /\ last.req.hash = None
    /\ RootPointer.hash # DefaultRootHash
    /\ Cardinality({k \in 1..Len(merkle) :
           merkle[k] = Doc(1, new_leaf(last.req.index,
                                       last.resp.node.hash))}) = 2
    /\ datahash = <<DataHashRecord(last.resp.node.hash, last.req.data[1]),
                    DataHashRecord(last.resp.node.hash, last.req.data[1])>>

(***************************************************************************)
(* C4.  No-op write: a SetLeaf(i, data) with data only, where data is what *)
(* GetLeaf(i) answers before the call, leaves the hash of the root pointer *)
(* unchanged; a leaf never written answers 32 zero bytes.                  *)
(* The code refutes it on a leaf never written: the default leaf hash is   *)
(* hash_data of the zero bytes, the written one is poseidon::hash of them. *)
(***************************************************************************)
NoOpWriteKeepsRoot ==
    [][(/\ last'.req.op = "SetLeaf"
        /\ last'.req.data # None /\ last'.req.hash = None
        /\ ReadsBack(ReadLeaf(merkle, datahash, last'.req.index),
                     last'.req.index, last'.req.data[1]))
       => RootPointer'.hash = RootPointer.hash]_vars

ProofIsPreWrite(proof, before, leaf_hash) ==
    /\ before.st = "Ok"
    /\ proof = [before.proof EXCEPT !.source = leaf_hash]
    /\ proof.root = RootPointer.hash
    /\ proof.index = last'.req.index
    /\ Verify(proof) = RootPointer'.hash

(***************************************************************************)
(* C5.  The proof a successful SetLeaf returns is the proof of the leaf in *)
(* the tree before the write (root: the hash of the root pointer before    *)
(* the write; assist: the sibling hashes read before the write; index:     *)
(* the leaf index) with only source replaced by the new leaf hash, and     *)
(* folding source with assist gives the hash of the root pointer the       *)
(* write installed.                                                        *)
(***************************************************************************)
SetLeafProofIsPreWrite ==
    [][(WroteLeaf(last') /\ last'.resp.proof # None)
       => ProofIsPreWrite(last'.resp.proof[1].proof,
                          get_leaf_and_proof(merkle, last'.req.index),
                          last'.resp.node.hash)]_vars

\* A SetLeaf has returned a proof against a tree that an earlier write had
\* changed, and has changed the leaf and the root.
ProofAgainstWrittenTree ==
    /\ WroteLeaf(last)
    /\ last.resp.proof # None
    /\ last.resp.proof[1].proof.root # DefaultRootHash
    /\ last.resp.proof[1].proof.root # RootPointer.hash
    /\ last.resp.proof[1].proof.assist[MERKLE_TREE_HEIGHT] # DefaultLeafHash
    /\ Verify(last.resp.proof[1].proof) = RootPointer.hash

(***************************************************************************)
(* C6.  The merkle collection holds at most one non-sentinel record for    *)
(* each (index, hash): insert_merkle_record inserts nothing when a record  *)
(* with the (index, hash) of its argument is stored.                       *)
(* The code refutes it: insert_one runs before `exists` is looked at.      *)
(***************************************************************************)
OneRecordPerIndexAndHash ==
    \A j, k \in StoredOids(merkle, 1) :
        (merkle[j].index = merkle[k].index /\ merkle[j].hash = merkle[k].hash)
        => j = k

KeepsDocument(k) ==
    IF merkle[k].oid = get_current_root_object_id
    THEN merkle'[k].oid = get_current_root_object_id
    ELSE merkle'[k] = merkle[k]

(***************************************************************************)
(* C7.  Append-only store: no step removes a document or changes a field   *)
(* of a stored data-hash record or of a stored merkle record other than    *)
(* the root sentinel, and the sentinel stays the sentinel.                 *)
(***************************************************************************)
AppendOnly ==
    [][/\ Len(merkle') >= Len(merkle)
       /\ \A k \in 1..Len(merkle) : KeepsDocument(k)
       /\ Len(datahash') >= Len(datahash)
       /\ \A k \in 1..Len(datahash) : datahash'[k] = datahash[k]]_vars

\* The sentinel has been rewritten: it holds a root other than the first
\* root record stored, which is still there, beside data-hash records.
SentinelRewritten ==
    /\ datahash # <<>>
    /\ \E s \in StoredOids(merkle, get_current_root_object_id) :
           \E j \in StoredOids(merkle, 1) :
               /\ j < s
               /\ merkle[j].index = 0
               /\ merkle[j].hash # merkle[s].hash

(***************************************************************************)
(* C8.  Invariant I1: every stored record whose index is not a leaf index, *)
(* the root sentinel included, has hash = hash_children(left, right).      *)
(***************************************************************************)
StoredInternalRecordsHash ==
    \A k \in 1..Len(merkle) :
        ~leaf_check(merkle[k].index)
        => merkle[k].hash = hash_children(merkle[k].left, merkle[k].right)

\* SetLeaf and SetNonLeaf have both stored internal records, with children
\* that differ, and the sentinel holds a root that is not the default one.
InternalRecordsStored ==
    /\ \E s \in StoredOids(merkle, get_current_root_object_id) :
           merkle[s].hash # DefaultRootHash /\ merkle[s].left # merkle[s].right
    /\ \E k \in StoredOids(merkle, 1) :
           merkle[k].index = FirstLeaf - 1 /\ merkle[k].left # merkle[k].right
    /\ last.req.op = "SetNonLeaf" /\ last.resp.status = "OK"
    /\ last.req.left # last.req.right

IsLeafHashOf(h, record) ==
    /\ record # None
    /\ Len(record[1].data.words) = 1 /\ record[1].data.tail = 0
    /\ h = hash_data(record[1].data.words[1])

(***************************************************************************)
(* C9.  Invariant I2: for every stored leaf record there is a data-hash    *)
(* record for its hash, and the hash is hash_data of that data: the hash   *)
(* over the two zero-padded 16-byte halves of the 32-byte preimage.        *)
(* The code refutes it: a SetLeaf with data only stores poseidon::hash of  *)
(* the data, the hash over one field element.                              *)
(***************************************************************************)
StoredLeafRecordsHash ==
    \A k \in StoredOids(merkle, 1) :
        leaf_check(merkle[k].index)
        => IsLeafHashOf(merkle[k].hash,
                        get_datahash_record(datahash, merkle[k].hash))

StoredWith(request, h) ==
    /\ last.resp.node.hash = h
    /\ \E k \in 1..Len(merkle) : merkle[k] = Doc(1, new_leaf(request.index, h))
    /\ \E k \in 1..Len(datahash) :
           datahash[k] = DataHashRecord(h, request.data[1])

StoreUnchanged == merkle' = merkle /\ datahash' = datahash

\* The request carries no data, and no hash or a hash that has no data-hash
\* record and is not the default data hash.
WithoutPayload(request, dh) ==
    /\ request.op = "SetLeaf"
    /\ request.data = None
    /\ request.hash # None => get_datahash_record(dh, request.hash[1]) = None

(***************************************************************************)
(* C11.  A SetLeaf with neither data nor hash, or with only a hash that    *)
(* has no data-hash record and is not the default data hash, answers       *)
(* InvalidArgument and writes no merkle record, no data-hash record and    *)
(* no root pointer.                                                        *)
(***************************************************************************)
SetLeafWithoutPayloadRejected ==
    [][WithoutPayload(last'.req, datahash)
       => (last'.resp.status = "INVALID_ARGUMENT" /\ StoreUnchanged)]_vars

\* A SetLeaf with only an unknown hash has been rejected at a leaf index of
\* a store that holds records.
UnknownHashRejected ==
    /\ WithoutPayload(last.req, datahash)
    /\ last.req.hash # None
    /\ leaf_check(last.req.index)
    /\ last.resp.status = "INVALID_ARGUMENT"
    /\ merkle # <<>>

\* The response to a GetLeaf of a leaf never written, of a tree never
\* written.
DefaultLeafRead(request, resp) ==
    /\ ReadsBack(resp, request.index, ZeroData)
    /\ resp.node.hash = DefaultLeafHash
    /\ IF request.proof_type = "ProofV0"
       THEN /\ resp.proof # None
            /\ resp.proof[1].proof.root = DefaultRootHash
            /\ resp.proof[1].proof.source = DefaultLeafHash
            /\ resp.proof[1].proof.index = request.index
            /\ Len(resp.proof[1].proof.assist) = MERKLE_TREE_HEIGHT
       ELSE resp.proof = None

(***************************************************************************)
(* C12.  On a store never written (no sentinel, both collections empty),   *)
(* GetRoot answers the default root D[H], and GetLeaf of a leaf index,     *)
(* without a hash, answers a leaf node with that index and 32 zero bytes   *)
(* of data, with a proof when ProofV0 is requested.                        *)
(***************************************************************************)
EmptyStoreReadsDefaults ==
    [][(merkle = <<>> /\ datahash = <<>>)
       => /\ last'.req.op = "GetRoot"
             => (last'.resp.status = "OK" /\ last'.resp.root = DefaultRootHash)
          /\ (/\ last'.req.op = "GetLeaf"
              /\ leaf_check(last'.req.index)
              /\ last'.req.hash = None)
             => DefaultLeafRead(last'.req, last'.resp)]_vars

\* The last leaf of a store never written has been read with its proof.
LastDefaultLeafRead ==
    /\ merkle = <<>> /\ datahash = <<>>
    /\ last.req.op = "GetLeaf"
    /\ last.req.hash = None
    /\ last.req.index = LastLeaf
    /\ last.req.proof_type = "ProofV0"
    /\ DefaultLeafRead(last.req, last.resp)

\* A document with index 0 and hash h is stored.
RootRecordStored(m, h) == \E k \in 1..Len(m) : m[k].index = 0 /\ m[k].hash = h

\* The root pointer holds the hash and the children of a stored record
\* (0, h), or of the default root record.
PointsAtRecord(pointer, m, h) ==
    /\ pointer.hash = h
    /\ \/ \E k \in 1..Len(m) :
              /\ m[k].index = 0 /\ m[k].hash = h
              /\ m[k].left = pointer.left /\ m[k].right = pointer.right
       \/ pointer = get_default_record(0).rec

(***************************************************************************)
(* C13.  SetRoot(hash) succeeds exactly when a record with index 0 and     *)
(* that hash is stored or the hash is the default root; the root pointer   *)
(* then holds the hash, left and right of that record and GetRoot answers  *)
(* hash.  Otherwise it fails with a Precondition error and the root        *)
(* pointer is unchanged.                                                   *)
(***************************************************************************)
SetRootNeedsStoredRoot ==
    [][last'.req.op = "SetRoot"
       => IF RootRecordStored(merkle, last'.req.hash)
             \/ last'.req.hash = DefaultRootHash
          THEN /\ last'.resp.status = "OK"
               /\ last'.resp.root = last'.req.hash
               /\ PointsAtRecord(RootPointer', merkle, last'.req.hash)
               /\ get_root(merkle').root = last'.req.hash
          ELSE /\ last'.resp.status = "INTERNAL"
               /\ last'.resp.error = "Precondition"
               /\ RootPointer' = RootPointer
               /\ StoreUnchanged]_vars

\* SetRoot has moved the root pointer to a stored record that is not the
\* default root.
RootMovedToStoredRecord ==
    /\ last.req.op = "SetRoot"
    /\ last.resp.status = "OK"
    /\ last.req.hash # DefaultRootHash
    /\ RootPointer.hash = last.req.hash
    /\ \E k \in StoredOids(merkle, 1) :
           merkle[k].index = 0 /\ merkle[k].hash = last.req.hash

\* The documents a step has added to the merkle collection.
AddedDocuments == (Len(merkle) + 1)..Len(merkle')

WalksTree(request, dh) ==
    \/ /\ request.op = "GetLeaf"
       /\ request.hash = None \/ request.proof_type = "ProofV0"
    \/ /\ request.op = "SetLeaf"
       /\ resolve_leaf_payload(dh, request.data, request.hash).st = "Ok"

\* The error of leaf_check: Error::Merkle, an internal status.
IndexRejected(resp) == resp.status = "INTERNAL" /\ resp.error = "Merkle"

(***************************************************************************)
(* C15.  SetLeaf and the GetLeaf that walks the tree accept an index       *)
(* exactly when it is a leaf index: an index in 2^H - 1 .. 2^(H+1) - 2,    *)
(* both ends included, is never refused for its index, and an index below  *)
(* or above is refused with the error of the leaf check, with the merkle   *)
(* collection untouched.                                                   *)
(***************************************************************************)
LeafIndexGate ==
    [][WalksTree(last'.req, datahash)
       => IF leaf_check(last'.req.index)
          THEN ~IndexRejected(last'.resp)
          ELSE IndexRejected(last'.resp) /\ merkle' = merkle]_vars

\* A write past the last leaf is refused on a store that holds a tree, after
\* a write at the last leaf was served.
IndexPastLastLeafRejected ==
    /\ last.req.op = "SetLeaf"
    /\ last.req.index = LastLeaf + 1
    /\ last.req.data # None
    /\ IndexRejected(last.resp)
    /\ \E k \in 1..Len(merkle) : merkle[k].index = LastLeaf

\* The collection holds a record (a, h) with the children (left, right), and
\* GetNonLeaf(a, h) answers with it.
AncestorServed(m, a, h, left, right) ==
    /\ \E k \in 1..Len(m) :
           /\ m[k].index = a /\ m[k].hash = h
           /\ m[k].left = left /\ m[k].right = right
    /\ get_non_leaf(m, a, h) =
           [status |-> "OK", proof |-> None,
            node |-> [index |-> a, hash |-> h, node_type |-> "NodeNonLeaf",
                      node_data |-> [kind |-> "Children",
                                     left_child_hash |-> left,
                                     right_child_hash |-> right]]]

RECURSIVE AncestorsServed(_, _, _, _, _)

AncestorOf(m, child, left, right, siblings, depth) ==
    /\ AncestorServed(m, (child - 1) \div 2, hash_children(left, right),
                      left, right)
    /\ AncestorsServed(m, (child - 1) \div 2, hash_children(left, right),
                       siblings, depth - 1)

\* Every ancestor of `child` (a node at `depth`, with hash child_hash) is
\* served, where siblings[d] is the hash of the sibling of the node of the
\* path at depth d.  A node with an odd index is a left child.
AncestorsServed(m, child, child_hash, siblings, depth) ==
    IF child = 0 THEN TRUE
    ELSE AncestorOf(m, child,
             IF child % 2 = 1 THEN child_hash ELSE siblings[depth],
             IF child % 2 = 1 THEN siblings[depth] ELSE child_hash,
             siblings, depth)

(***************************************************************************)
(* C16.  After a successful SetLeaf at leaf i, for every ancestor a of i,  *)
(* from the parent of the leaf up to index 0, the merkle collection holds  *)
(* a record (a, h_a) whose children are the new hash of the child of a on  *)
(* the path to i and the hash the sibling of that child had before the     *)
(* write, left before right, and GetNonLeaf(a, h_a) returns that record.   *)
(***************************************************************************)
SetLeafStoresAncestors ==
    [][(last'.req.op = "SetLeaf" /\ last'.resp.status = "OK")
       => AncestorsServed(merkle', last'.req.index, last'.resp.node.hash,
              get_leaf_and_proof(merkle, last'.req.index).proof.assist,
              MERKLE_TREE_HEIGHT)]_vars

\* Two sibling leaves are written, the second with the last call, and
\* GetNonLeaf(parent, hash_children(leaf1.hash, leaf2.hash)) answers with
\* the children (leaf1.hash, leaf2.hash).
SiblingLeavesWritten ==
    /\ last.req.op = "SetLeaf" /\ last.resp.status = "OK"
    /\ last.req.index = FirstLeaf + 1
    /\ last.resp.node.hash # DefaultLeafHash
    /\ \E k \in 1..Len(merkle) :
           /\ merkle[k].index = FirstLeaf /\ merkle[k].hash = OneHash
    /\ AncestorServed(merkle, (FirstLeaf - 1) \div 2,
                      hash_children(OneHash, last.resp.node.hash),
                      OneHash, last.resp.node.hash)

\* A GetLeaf on the fast path at an internal index, for a stored record.
FastReadOfInternalNode(request, m, k) ==
    /\ request.op = "GetLeaf"
    /\ request.hash # None
    /\ request.proof_type = "ProofEmpty"
    /\ request.index < FirstLeaf
    /\ m[k].index = request.index
    /\ m[k].hash = request.hash[1]

(***************************************************************************)
(* C17.  GetLeaf with a hash and proof type ProofEmpty, at a non-leaf      *)
(* index for which a record (index, hash) is stored, succeeds and returns  *)
(* a node of type NonLeaf with that index and the left and right child     *)
(* hashes of the record, with no proof.                                    *)
(* The code refutes it: get_leaf asks for the data-hash record of the hash *)
(* of the record, which an internal node does not have.                    *)
(***************************************************************************)
FastPathReadsInternalNode ==
    \A k \in 1..Len(merkle) :
        FastReadOfInternalNode(last.req, merkle, k)
        => last.resp =
               [status |-> "OK", proof |-> None,
                node |-> [index |-> merkle[k].index, hash |-> merkle[k].hash,
                          node_type |-> "NodeNonLeaf",
                          node_data |-> [kind |-> "Children",
                                         left_child_hash |-> merkle[k].left,
                                         right_child_hash |-> merkle[k].right]]]

\* The answer to GetLeaf(index, h, ProofV0) given the walk `got` from the
\* current root: refused when the walk reaches another hash, and otherwise
\* either an error or the leaf reached, proved against the current root.
ProvenRead(request, resp, got, root) ==
    /\ resp.status = "OK"
       => /\ got.st = "Ok"
          /\ resp.node.index = request.index
          /\ resp.node.hash = request.hash[1]
          /\ got.node.hash = request.hash[1]
          /\ resp.proof # None
          /\ resp.proof[1].proof.source = request.hash[1]
          /\ resp.proof[1].proof.root = root.root
    /\ (got.st = "Ok" /\ got.node.hash # request.hash[1])
       => resp = Failure("InvalidArgument")

(***************************************************************************)
(* C18.  GetLeaf with a hash and proof type ProofV0 walks from the current *)
(* root and answers InvalidArgument whenever the supplied hash differs     *)
(* from the hash of the leaf reached; when it answers with a leaf, the     *)
(* leaf is the one under the current root.                                 *)
(***************************************************************************)
ProvenLeafIsUnderRoot ==
    [][(/\ last'.req.op = "GetLeaf"
        /\ last'.req.hash # None
        /\ last'.req.proof_type = "ProofV0")
       => ProvenRead(last'.req, last'.resp,
                     get_leaf_and_proof(merkle, last'.req.index),
                     get_root(merkle))]_vars

\* A record (index, hash) is stored but is not the leaf under the current
\* root, and the read of it with a proof is refused.
StoredLeafOutsideRootRefused ==
    /\ last.req.op = "GetLeaf"
    /\ last.req.hash # None
    /\ last.req.proof_type = "ProofV0"
    /\ last.resp = Failure("InvalidArgument")
    /\ \E k \in 1..Len(merkle) :
           /\ merkle[k].index = last.req.index
           /\ merkle[k].hash = last.req.hash[1]

\* The operations whose responses can carry a proof.
CarriesProof(request) == request.op \in {"GetLeaf", "SetLeaf"}

(***************************************************************************)
(* C19.  For GetLeaf and SetLeaf alike, a response carries a proof if and  *)
(* only if the proof type of the request is ProofV0, and the proof type of *)
(* the proof is then ProofV0; with ProofEmpty the proof is absent.         *)
(***************************************************************************)
ProofGatedByProofType ==
    (CarriesProof(last.req) /\ last.resp.status = "OK")
    => IF last.req.proof_type = "ProofV0"
       THEN /\ last.resp.proof # None
            /\ last.resp.proof[1].proof_type = "ProofV0"
            /\ last.resp.proof[1].proof.index = last.req.index
       ELSE last.resp.proof = None

\* A read without a hash walks a written tree, which yields a proof, and the
\* request asks for none: the response carries none.
WalkWithoutProof ==
    /\ last.req.op = "GetLeaf"
    /\ last.req.hash = None
    /\ last.req.proof_type = "ProofEmpty"
    /\ last.resp.status = "OK"
    /\ last.resp.proof = None
    /\ merkle # <<>>

(***************************************************************************)
(* Contract-id resolution.  A byte is a number in 0..255.  The text of a   *)
(* metadata value is a sequence of characters, each a number: 0..63 is the *)
(* place of the character in the standard base64 alphabet, 64 is the       *)
(* padding character '=', 65 an ASCII character outside the alphabet and   *)
(* 66 a byte that is not visible ASCII.                                    *)
(***************************************************************************)
\* impl TryFrom<&[u8]> for ContractId
contract_id_from_bytes(a) ==
    IF Len(a) = 32 THEN [st |-> "Ok", id |-> a]
    ELSE [st |-> "InvalidArgument"]

RECURSIVE base64_decode_from(_, _, _)

\* One group of four characters at s[k..k+3]: three bytes, or the one or
\* two bytes of a padded last group whose unused bits are zero.
base64_quad(s, k, acc, a, b, c, d) ==
    IF a > 63 \/ b > 63 THEN [st |-> "InvalidArgument"]
    ELSE IF c = 64 /\ d = 64
    THEN IF k + 3 = Len(s) /\ b % 16 = 0
         THEN [st |-> "Ok", bytes |-> Append(acc, a * 4 + (b \div 16))]
         ELSE [st |-> "InvalidArgument"]
    ELSE IF c > 63 THEN [st |-> "InvalidArgument"]
    ELSE IF d = 64
    THEN IF k + 3 = Len(s) /\ c % 4 = 0
         THEN [st |-> "Ok",
               bytes |-> acc \o <<a * 4 + (b \div 16),
                                  (b % 16) * 16 + (c \div 4)>>]
         ELSE [st |-> "InvalidArgument"]
    ELSE IF d > 63 THEN [st |-> "InvalidArgument"]
    ELSE base64_decode_from(s, k + 4,
             acc \o <<a * 4 + (b \div 16), (b % 16) * 16 + (c \div 4),
                      (c % 4) * 64 + d>>)

base64_decode_from(s, k, acc) ==
    IF k > Len(s) THEN [st |-> "Ok", bytes |-> acc]
    ELSE base64_quad(s, k, acc, s[k], s[k + 1], s[k + 2], s[k + 3])

\* general_purpose::STANDARD.decode: canonical padding is required.
base64_decode(s) ==
    IF Len(s) % 4 # 0 THEN [st |-> "InvalidArgument"]
    ELSE base64_decode_from(s, 1, <<>>)

contract_id_of_decoded(decoded) ==
    IF decoded.st # "Ok" THEN [st |-> decoded.st]
    ELSE contract_id_from_bytes(decoded.bytes)

\* impl TryFrom<&str> for ContractId
contract_id_from_str(a) == contract_id_of_decoded(base64_decode(a))

\* MetadataValue::to_str
to_str_ok(id) == \A k \in 1..Len(id) : id[k] # 66

unauthenticated_unless_ok(r) ==
    IF r.st = "Ok" THEN r ELSE [st |-> "Unauthenticated"]

get_contract_id_from_request_context(metadata) ==
    IF metadata = None THEN [st |-> "Unauthenticated"]
    ELSE IF ~to_str_ok(metadata[1]) THEN [st |-> "Unauthenticated"]
    ELSE unauthenticated_unless_ok(contract_id_from_str(metadata[1]))

get_contract_id_from_request_parameters(contract_id) ==
    contract_id_from_bytes(contract_id)

\* ContractId::default()
DefaultContractId == [k \in 1..32 |-> 0]

\* unwrap_or_default handing on the error of the metadata: a variant that
\* AnonymousServedOnDefault must reject.
unwrap_or_reject(r) == r

unwrap_or_default(r) ==
    IF r.st = "Ok" THEN r ELSE [st |-> "Ok", id |-> DefaultContractId]

\* get_contract_id reading the metadata before the field of the request: a
\* variant that ContractIdPriority must reject.
get_contract_id_metadata_first(test_config, metadata, contract_id) ==
    IF test_config # None THEN [st |-> "Ok", id |-> test_config[1]]
    ELSE IF get_contract_id_from_request_context(metadata).st = "Ok"
    THEN get_contract_id_from_request_context(metadata)
    ELSE IF contract_id # None
    THEN get_contract_id_from_request_parameters(contract_id[1])
    ELSE [st |-> "Ok", id |-> DefaultContractId]

get_contract_id(test_config, metadata, contract_id) ==
    IF test_config # None THEN [st |-> "Ok", id |-> test_config[1]]
    ELSE IF contract_id # None
    THEN get_contract_id_from_request_parameters(contract_id[1])
    ELSE unwrap_or_default(get_contract_id_from_request_context(metadata))

\* `let contract_id = self.get_contract_id(..)?`, the first statement of
\* every handler: the error as a status, or the contract whose collections
\* the handler opens.
contract_reply(r) ==
    IF r.st # "Ok" THEN Failure(r.st)
    ELSE [status |-> "OK", contract_id |-> r.id]

RECURSIVE base64_encode_from(_, _, _)

\* The standard base64 text of bytes[k..], after acc.
base64_encode_from(bytes, k, acc) ==
    IF k > Len(bytes) THEN acc
    ELSE IF k = Len(bytes)
    THEN acc \o <<bytes[k] \div 4, (bytes[k] % 4) * 16, 64, 64>>
    ELSE IF k + 1 = Len(bytes)
    THEN acc \o <<bytes[k] \div 4,
                  (bytes[k] % 4) * 16 + (bytes[k + 1] \div 16),
                  (bytes[k + 1] % 16) * 4, 64>>
    ELSE base64_encode_from(bytes, k + 3,
             acc \o <<bytes[k] \div 4,
                      (bytes[k] % 4) * 16 + (bytes[k + 1] \div 16),
                      (bytes[k + 1] % 16) * 4 + (bytes[k + 2] \div 64),
                      bytes[k + 2] % 64>>)

base64_encode(bytes) == base64_encode_from(bytes, 1, <<>>)

IdA == [k \in 1..32 |-> 255]

IdB == [k \in 1..32 |-> 7 * k]

ContractIds == {DefaultContractId, IdA, IdB}

\* The contract_id field of a request: absent, 32 bytes, one byte short, one
\* byte long, empty, and the 44 characters of a base64 text as bytes.
ContractIdFieldInputs ==
    Opt(ContractIds
        \cup {SubSeq(IdB, 1, 31), Append(IdB, 1), <<>>, [k \in 1..44 |-> 65]})

\* The x-auth-contract-id metadata: absent, the base64 text of 32 bytes, of
\* 31 bytes, a text without its padding, with non-zero unused bits, with a
\* character outside the alphabet, with a byte that is not ASCII, and empty.
MetadataInputs ==
    Opt({base64_encode(id) : id \in ContractIds}
        \cup {base64_encode(SubSeq(IdB, 1, 31)),
              SubSeq(base64_encode(IdB), 1, 43),
              [base64_encode(IdB) EXCEPT ![43] = @ + 1],
              [base64_encode(IdB) EXCEPT ![5] = 65],
              [base64_encode(IdB) EXCEPT ![5] = 66],
              <<>>})

TestConfigInputs == Opt({IdA})

\* The resolution of the contract id at the head of a handler, for a
\* service built with test_config.
ResolveContractId(test_config, metadata, contract_id) ==
    /\ calls < MaxCalls
    /\ last' = [req |-> [op |-> "GetContractId", test_config |-> test_config,
                         metadata |-> metadata, contract_id |-> contract_id],
                resp |-> contract_reply(
                             get_contract_id(test_config, metadata,
                                             contract_id))]
    /\ calls' = calls + 1
    /\ UNCHANGED <<merkle, datahash>>

NextContractId ==
    \E test_config \in TestConfigInputs, metadata \in MetadataInputs,
       contract_id \in ContractIdFieldInputs :
        ResolveContractId(test_config, metadata, contract_id)

SpecContractId == Init /\ [][NextContractId]_vars

\* The answer that carries the contract id `id`.
Resolved(id) == [status |-> "OK", contract_id |-> id]

(***************************************************************************)
(* C20.  The contract id is resolved in a strict order: the test override  *)
(* of the service, when there is one, whatever the request holds; else the *)
(* contract_id field of the request, used when it is exactly 32 bytes and  *)
(* refused with InvalidArgument when it is not; and only when neither is   *)
(* present the x-auth-contract-id metadata, the base64 text of 32 bytes.   *)
(***************************************************************************)
ContractIdPriority ==
    last.req.op = "GetContractId"
    => IF last.req.test_config # None
       THEN last.resp = Resolved(last.req.test_config[1])
       ELSE IF last.req.contract_id # None
       THEN IF Len(last.req.contract_id[1]) = 32
            THEN last.resp = Resolved(last.req.contract_id[1])
            ELSE last.resp = Failure("InvalidArgument")
       ELSE \A id \in ContractIds :
                last.req.metadata = Some(base64_encode(id))
                => last.resp = Resolved(id)

\* Without a test override, a request that carries a contract id in its
\* field and another one in its metadata is served under the former.
FieldBeforeMetadata ==
    /\ last.req.op = "GetContractId"
    /\ last.req.test_config = None
    /\ last.req.contract_id = Some(IdA)
    /\ last.req.metadata = Some(base64_encode(IdB))
    /\ last.resp = Resolved(IdA)

(***************************************************************************)
(* The service over several contracts.  The database is a map from         *)
(* collection names to collections, a collection not yet written being     *)
(* empty: in this specification `merkle` is the map of the MERKLEDATA_     *)
(* collections and `datahash` the map of the DATAHASH_ collections.  The   *)
(* service is built without a test override (MongoKvPair::new), and each   *)
(* request carries its metadata and its contract_id field.                 *)
(***************************************************************************)
\* hex::encode: two digits per byte, the high one first.
hex_encode(bytes) ==
    [k \in 1..(2 * Len(bytes)) |->
        IF k % 2 = 1 THEN bytes[(k + 1) \div 2] \div 16
        ELSE bytes[k \div 2] % 16]

\* get_merkle_collection_name naming one collection for every contract: a
\* variant that ContractsAreIsolated must reject.
get_merkle_collection_name_shared(contract_id) == <<"MERKLEDATA_">>

get_merkle_collection_name(contract_id) ==
    <<"MERKLEDATA_">> \o hex_encode(contract_id)

get_data_collection_name(contract_id) ==
    <<"DATAHASH_">> \o hex_encode(contract_id)

\* The body of a handler after new_collection, on the two collections it
\* has opened.
serve(request, m, dh) ==
    CASE request.op = "GetRoot" ->
             [m |-> m, dh |-> dh, resp |-> get_root(m)]
      [] request.op = "SetRoot" ->
             [m |-> set_root(m, request.hash).m, dh |-> dh,
              resp |-> set_root(m, request.hash).resp]
      [] request.op = "GetLeaf" ->
             [m |-> m, dh |-> dh,
              resp |-> get_leaf(m, dh, request.index, request.hash,
                                request.proof_type)]
      [] request.op = "SetLeaf" ->
             set_leaf(m, dh, request.index, request.data, request.hash,
                      request.proof_type)
      [] request.op = "GetNonLeaf" ->
             [m |-> m, dh |-> dh,
              resp |-> get_non_leaf(m, request.index, request.hash)]
      [] request.op = "SetNonLeaf" ->
             [m |-> set_non_leaf(m, request.index, request.hash,
                                 request.left, request.right).m,
              dh |-> dh,
              resp |-> set_non_leaf(m, request.index, request.hash,
                                    request.left, request.right).resp]

\* The database and the response after a handler that returned r.
ServeResult(request, merkle_name, data_name, r) ==
    /\ merkle' = [merkle EXCEPT ![merkle_name] = r.m]
    /\ datahash' = [datahash EXCEPT ![data_name] = r.dh]
    /\ last' = [req |-> request, resp |-> r.resp]

\* MongoCollection::new: the two collections named after the contract.
ServeOn(request, merkle_name, data_name) ==
    ServeResult(request, merkle_name, data_name,
                serve(request, merkle[merkle_name], datahash[data_name]))

\* `self.get_contract_id(..)?` and `self.new_collection(&contract_id, false)`
ServeResolved(request, resolved) ==
    IF resolved.st # "Ok"
    THEN /\ last' = [req |-> request, resp |-> Failure(resolved.st)]
         /\ UNCHANGED <<merkle, datahash>>
    ELSE ServeOn(request, get_merkle_collection_name(resolved.id),
                 get_data_collection_name(resolved.id))

\* A request, which carries the metadata and the contract_id field of the
\* route, served by a service without a test override.
Routed(route, request) ==
    /\ calls < MaxCalls
    /\ calls' = calls + 1
    /\ ServeResolved(request, get_contract_id(None, route[1], route[2]))

\* (metadata, contract_id) of a request: neither, the field, the metadata,
\* both, a field one byte short, and a metadata that is not base64.
RouteInputs ==
    {<<None, None>>, <<None, Some(IdA)>>, <<Some(base64_encode(IdB)), None>>,
     <<Some(base64_encode(IdB)), Some(IdA)>>,
     <<None, Some(SubSeq(IdB, 1, 31))>>,
     <<Some([base64_encode(IdB) EXCEPT ![5] = 65]), None>>}

\* The root of the tree whose only written leaf is OneData at the first
\* leaf, which a client has seen in the response to that write.
OneLeafRoot ==
    get_root(set_leaf(<<>>, <<>>, FirstLeaf, Some(OneData), None,
                      "ProofEmpty").m).root

InitContracts ==
    /\ merkle = [n \in {get_merkle_collection_name(id) : id \in ContractIds}
                   |-> <<>>]
    /\ datahash = [n \in {get_data_collection_name(id) : id \in ContractIds}
                     |-> <<>>]
    /\ last = [req |-> [op |-> "None"], resp |-> [status |-> "None"]]
    /\ calls = 0

RoutedGetRoot(route) ==
    Routed(route, [op |-> "GetRoot", metadata |-> route[1],
                   contract_id |-> route[2]])

RoutedSetRoot(route, h) ==
    Routed(route, [op |-> "SetRoot", hash |-> h, metadata |-> route[1],
                   contract_id |-> route[2]])

RoutedGetLeaf(route, index, h, proof_type) ==
    Routed(route, [op |-> "GetLeaf", index |-> index, hash |-> h,
                   proof_type |-> proof_type, metadata |-> route[1],
                   contract_id |-> route[2]])

RoutedSetLeaf(route, index, data, h, proof_type) ==
    Routed(route, [op |-> "SetLeaf", index |-> index, data |-> data,
                   hash |-> h, proof_type |-> proof_type,
                   metadata |-> route[1], contract_id |-> route[2]])

RoutedGetNonLeaf(route, index, h) ==
    Routed(route, [op |-> "GetNonLeaf", index |-> index, hash |-> h,
                   metadata |-> route[1], contract_id |-> route[2]])

RoutedSetNonLeaf(route, index, h, left, right) ==
    Routed(route, [op |-> "SetNonLeaf", index |-> index, hash |-> h,
                   left |-> left, right |-> right, metadata |-> route[1],
                   contract_id |-> route[2]])

NextContracts ==
    \/ \E route \in RouteInputs : RoutedGetRoot(route)
    \/ \E route \in RouteInputs, h \in {DefaultRootHash, OneLeafRoot} :
          RoutedSetRoot(route, h)
    \/ \E route \in RouteInputs, index \in {FirstLeaf, LastLeaf},
          h \in Opt({OneHash}) :
          RoutedGetLeaf(route, index, h, "ProofV0")
    \/ \E route \in RouteInputs, index \in {FirstLeaf, LastLeaf},
          data \in DataInputs :
          RoutedSetLeaf(route, index, Some(data), None, "ProofEmpty")
    \/ \E route \in RouteInputs, h \in {DefaultRootHash, OneLeafRoot} :
          RoutedGetNonLeaf(route, 0, h)
    \/ \E route \in RouteInputs :
          RoutedSetNonLeaf(route, 0, None, OneHash, DefaultLeafHash)

SpecContracts == InitContracts /\ [][NextContracts]_vars

\* The contract a request is resolved to by a service without a test
\* override.
ResolvedTo(request, id) ==
    /\ request.op # "None"
    /\ get_contract_id(None, request.metadata, request.contract_id)
           = [st |-> "Ok", id |-> id]

\* The records, the root pointer and the data-hash records of a contract.
MerkleOf(db, id) == db[get_merkle_collection_name(id)]

DataOf(db, id) == db[get_data_collection_name(id)]

\* A request that names no contract at all.
Anonymous(request) ==
    /\ request.op # "None"
    /\ request.metadata = None
    /\ request.contract_id = None

(***************************************************************************)
(* C21.  A request with no test override, no contract_id field and no      *)
(* x-auth-contract-id metadata is resolved to the all-zero contract id and *)
(* served against the collections of that contract; it is not rejected.    *)
(***************************************************************************)
AnonymousServedOnDefault ==
    [][Anonymous(last'.req)
       => /\ ResolvedTo(last'.req, DefaultContractId)
          /\ last'.resp # Failure("Unauthenticated")
          /\ last'.resp =
                 serve(last'.req, MerkleOf(merkle, DefaultContractId),
                       DataOf(datahash, DefaultContractId)).resp
          /\ MerkleOf(merkle', DefaultContractId) =
                 serve(last'.req, MerkleOf(merkle, DefaultContractId),
                       DataOf(datahash, DefaultContractId)).m
          /\ DataOf(datahash', DefaultContractId) =
                 serve(last'.req, MerkleOf(merkle, DefaultContractId),
                       DataOf(datahash, DefaultContractId)).dh]_vars

\* An anonymous SetLeaf has written the tree of the all-zero contract.
AnonymousWriteServed ==
    /\ Anonymous(last.req)
    /\ last.req.op = "SetLeaf"
    /\ last.resp.status = "OK"
    /\ \E k \in 1..Len(MerkleOf(merkle, DefaultContractId)) :
           /\ MerkleOf(merkle, DefaultContractId)[k].index = last.req.index
           /\ MerkleOf(merkle, DefaultContractId)[k].hash
                  = last.resp.node.hash

(***************************************************************************)
(* C22.  Contract isolation: an RPC resolved to contract A reads and       *)
(* writes only the collections of A; for every other contract B the merkle *)
(* records, the root pointer and the data-hash records of B are unchanged  *)
(* by the call, however the RPCs on A and on B are interleaved.            *)
(***************************************************************************)
ContractsAreIsolated ==
    [][\A a \in ContractIds :
           ResolvedTo(last'.req, a)
           => /\ \A b \in ContractIds \ {a} :
                     /\ MerkleOf(merkle', b) = MerkleOf(merkle, b)
                     /\ DataOf(datahash', b) = DataOf(datahash, b)
              /\ last'.resp =
                     serve(last'.req, MerkleOf(merkle, a),
                           DataOf(datahash, a)).resp]_vars

\* Two contracts hold different trees: the last call wrote the one and left
\* the other, written before, as it was.
TwoContractsWritten ==
    /\ last.req.op = "SetLeaf"
    /\ last.resp.status = "OK"
    /\ ResolvedTo(last.req, IdA)
    /\ MerkleOf(merkle, IdB) # <<>>
    /\ get_root(MerkleOf(merkle, IdA)).root
           # get_root(MerkleOf(merkle, IdB)).root

(***************************************************************************)
(* set_leaf, store operation by store operation, for calls in flight at    *)
(* the same time on one contract.  Every `.await` on the store is one      *)
(* step: the step performs the store operation and the computation of the  *)
(* handler up to its next store operation.  In this specification `last`   *)
(* holds, for every call, its position (pc) and its local variables, and   *)
(* `calls` counts the calls begun.  A call may be cancelled, or its store  *)
(* operation may fail, before any of its steps.                            *)
(***************************************************************************)
Writers == {"w1", "w2"}

Idle ==
    [pc |-> "idle", index |-> 0, data |-> None, hash |-> None,
     root_hash |-> None, acc |-> 0, acc_node |-> None, k |-> 0,
     assist |-> <<>>, sibling_node |-> None, proof |-> None, i |-> 0,
     p |-> 0, record |-> None, error |-> None, resp |-> None]

Stopped(l, kind) == [l EXCEPT !.pc = "failed", !.error = Some(kind)]

\* set_leaf up to its first store operation, for a payload (data, no hash).
begin_set_leaf(index, data, hashed) ==
    IF hashed.st # "Ok" THEN Stopped(Idle, hashed.st)
    ELSE [Idle EXCEPT !.pc = "find_datahash", !.index = index,
                      !.data = Some(data), !.hash = Some(hashed.hash)]

\* After insert_datahash_record: leaf_check and get_path of
\* get_leaf_and_proof.
begin_walk(l) ==
    IF ~leaf_check(l.index) THEN Stopped(l, "Merkle")
    ELSE [l EXCEPT !.pc = "read_root"]

\* acc, acc_node, root_hash and assist before the loop over the path.
root_read(l, root) ==
    [l EXCEPT !.pc = "read_sibling", !.acc = 0, !.acc_node = Some(root),
              !.root_hash = Some(root.hash), !.k = 1, !.assist = <<>>]

\* `child` and is_left_child of the iteration of the walk the call is in.
child_of(l) == get_path(l.index)[l.k]

is_left_child(l) == (l.acc + 1) * 2 = child_of(l) + 1

sibling_read(l, sibling_node) ==
    IF sibling_node.st # "Ok" THEN Stopped(l, sibling_node.st)
    ELSE [l EXCEPT !.pc = "read_child",
                   !.sibling_node = Some(sibling_node.rec)]

read_sibling(m, l) ==
    sibling_read(l,
        must_get_merkle_record(m, get_sibling_index(child_of(l)),
            IF is_left_child(l) THEN l.acc_node[1].right
            ELSE l.acc_node[1].left))

\* The end of get_leaf_and_proof and the head of set_leaf_and_get_proof:
\* proof.source = hash, p = get_offset(index), and the leaf to insert.
walked(l, proof) ==
    [l EXCEPT !.pc = "find_record", !.proof = Some(proof),
              !.p = get_offset(l.index), !.i = -1,
              !.record = Some(new_leaf(l.index, l.hash[1])),
              !.acc = 0, !.acc_node = None, !.k = 0, !.assist = <<>>,
              !.sibling_node = None]

\* child_read pushing the hash of the child instead of its sibling's: a
\* variant that ConcurrentWritersKeepTree must reject.
child_read_child_hash(l, next_node) ==
    IF next_node.st # "Ok" THEN Stopped(l, next_node.st)
    ELSE IF l.k = Len(get_path(l.index))
    THEN walked(l, with_source(
             MerkleProof(next_node.rec.hash, l.root_hash[1],
                         Append(l.assist, next_node.rec.hash), l.index),
             l.hash[1]))
    ELSE [l EXCEPT !.pc = "read_sibling", !.acc = child_of(l),
                   !.acc_node = Some(next_node.rec),
                   !.assist = Append(@, next_node.rec.hash),
                   !.k = @ + 1, !.sibling_node = None]

\* The end of one iteration of the walk: acc, acc_node, assist.
child_read(l, next_node) ==
    IF next_node.st # "Ok" THEN Stopped(l, next_node.st)
    ELSE IF l.k = Len(get_path(l.index))
    THEN walked(l, with_source(
             MerkleProof(next_node.rec.hash, l.root_hash[1],
                         Append(l.assist, l.sibling_node[1].hash), l.index),
             l.hash[1]))
    ELSE [l EXCEPT !.pc = "read_sibling", !.acc = child_of(l),
                   !.acc_node = Some(next_node.rec),
                   !.assist = Append(@, l.sibling_node[1].hash),
                   !.k = @ + 1, !.sibling_node = None]

\* read_child looking the child up by its index alone, the record stored
\* there last: a variant that ReaderSnapshot must reject.
read_child_by_index(m, l) ==
    child_read(l,
        must_get_merkle_record(m, child_of(l),
            IF \E k \in 1..Len(m) :
                   m[k].index = child_of(l)
                   /\ m[k].oid # get_current_root_object_id
            THEN m[CHOOSE k \in 1..Len(m) :
                       /\ m[k].index = child_of(l)
                       /\ m[k].oid # get_current_root_object_id
                       /\ \A j \in (k + 1)..Len(m) :
                              \/ m[j].index # child_of(l)
                              \/ m[j].oid = get_current_root_object_id].hash
            ELSE IF is_left_child(l) THEN l.acc_node[1].left
            ELSE l.acc_node[1].right))

read_child(m, l) ==
    child_read(l,
        must_get_merkle_record(m, child_of(l),
            IF is_left_child(l) THEN l.acc_node[1].left
            ELSE l.acc_node[1].right))

\* One iteration of the loop of set_leaf_and_get_proof up to its
\* insert_merkle_record.
loop_record(l, i, p, record) ==
    [l EXCEPT !.pc = "find_record", !.i = i, !.p = p,
              !.record = Some(record)]

loop_children(l, i, p, depth, left, right) ==
    IF ~can_hash_children(left, right) THEN [l EXCEPT !.pc = "panicked"]
    ELSE loop_record(l, i, p \div 2,
             new_non_leaf((p \div 2) + Pow2(depth) - 1, left, right))

loop_level(l, i, cur_hash, p, depth) ==
    loop_children(l, i, p, depth,
        IF p % 2 = 1 THEN l.proof[1].assist[depth + 1] ELSE cur_hash,
        IF p % 2 = 1 THEN cur_hash ELSE l.proof[1].assist[depth + 1])

\* The tail of set_leaf after the loop: the proof, the node, commit (which
\* does nothing without a session) and the response.
finished(l) ==
    [l EXCEPT !.pc = "done", !.record = None,
              !.resp = Some(node_reply(
                           to_node(new_leaf(l.index, l.hash[1]),
                                   l.data[1]),
                           emit_proof("ProofV0", l.proof[1])))]

\* The head of the loop `for i in 0..MERKLE_TREE_HEIGHT`.
loop_from(l, i, cur_hash, p) ==
    IF i >= MERKLE_TREE_HEIGHT THEN finished([l EXCEPT !.i = i])
    ELSE loop_level(l, i, cur_hash, p, MERKLE_TREE_HEIGHT - i - 1)

\* record_inserted moving the root pointer after every record of the loop:
\* a variant that RootUpdatedLast must reject.
record_inserted_always_root(l) ==
    IF l.i >= 0 THEN [l EXCEPT !.pc = "update_root"]
    ELSE loop_from(l, l.i + 1, l.record[1].hash, l.p)

\* After insert_merkle_record: `if index == 0` in the loop, the first
\* iteration after the leaf.
record_inserted(l) ==
    IF l.i >= 0 /\ l.record[1].index = 0
    THEN [l EXCEPT !.pc = "update_root"]
    ELSE loop_from(l, l.i + 1, l.record[1].hash, l.p)

\* After update_root_merkle_record: the next iteration.
root_updated(l) == loop_from(l, l.i + 1, l.record[1].hash, l.p)

\* root_written leaving a root pointer that exists as it is: a variant that
\* LastRootUpdateWins must reject.
root_written_once(m, l) ==
    IF \E j \in 1..Len(m) : m[j].oid = get_current_root_object_id THEN m
    ELSE update_root_merkle_record(m, l.record[1])

\* self.update_root_merkle_record(&record) in the loop.
root_written(m, l) == update_root_merkle_record(m, l.record[1])

\* The stores the calls start on: an empty one, and the one a SetLeaf of
\* OneData at the last leaf has written.
InitStores ==
    {[m |-> <<>>, dh |-> <<>>],
     [m |-> set_leaf(<<>>, <<>>, LastLeaf, Some(OneData), None,
                     "ProofEmpty").m,
      dh |-> set_leaf(<<>>, <<>>, LastLeaf, Some(OneData), None,
                      "ProofEmpty").dh]}

InitSteps ==
    /\ \E s \in InitStores : merkle = s.m /\ datahash = s.dh
    /\ last = [w \in Writers |-> Idle]
    /\ calls = 0

At(w, pc) == last[w].pc = pc

Becomes(w, l) == last' = [last EXCEPT ![w] = l]

StartSetLeaf(w, index, data) ==
    /\ calls < MaxCalls
    /\ At(w, "idle")
    /\ Becomes(w, begin_set_leaf(index, data, hash(data)))
    /\ calls' = calls + 1
    /\ UNCHANGED <<merkle, datahash>>

\* find_one of insert_datahash_record
FindDatahash(w) ==
    /\ At(w, "find_datahash")
    /\ Becomes(w, [last[w] EXCEPT !.pc = "insert_datahash"])
    /\ UNCHANGED <<merkle, datahash, calls>>

\* insert_one of insert_datahash_record
InsertDatahash(w) ==
    /\ At(w, "insert_datahash")
    /\ datahash' = insert_datahash_record(datahash,
                       DataHashRecord(last[w].hash[1], last[w].data[1])).dh
    /\ Becomes(w, begin_walk(last[w]))
    /\ UNCHANGED <<merkle, calls>>

\* find_one of must_get_root_merkle_record
ReadRoot(w) ==
    /\ At(w, "read_root")
    /\ Becomes(w, root_read(last[w], must_get_root_merkle_record(merkle)))
    /\ UNCHANGED <<merkle, datahash, calls>>

\* find_one of must_get_merkle_record(sibling, &sibling_hash)
ReadSibling(w) ==
    /\ At(w, "read_sibling")
    /\ Becomes(w, read_sibling(merkle, last[w]))
    /\ UNCHANGED <<merkle, datahash, calls>>

\* find_one of must_get_merkle_record(acc, &hash)
ReadChild(w) ==
    /\ At(w, "read_child")
    /\ Becomes(w, read_child(merkle, last[w]))
    /\ UNCHANGED <<merkle, datahash, calls>>

\* find_one of insert_merkle_record
FindRecord(w) ==
    /\ At(w, "find_record")
    /\ Becomes(w, [last[w] EXCEPT !.pc = "insert_record"])
    /\ UNCHANGED <<merkle, datahash, calls>>

\* insert_one of insert_merkle_record
InsertRecord(w) ==
    /\ At(w, "insert_record")
    /\ merkle' = insert_merkle_record(merkle, last[w].record[1]).m
    /\ Becomes(w, record_inserted(last[w]))
    /\ UNCHANGED <<datahash, calls>>

\* update_one of update_root_merkle_record
UpdateRoot(w) ==
    /\ At(w, "update_root")
    /\ merkle' = root_written(merkle, last[w])
    /\ Becomes(w, root_updated(last[w]))
    /\ UNCHANGED <<datahash, calls>>

\* The call is cancelled, or its next store operation returns an error.
Abort(w) ==
    /\ last[w].pc \notin {"idle", "done", "failed", "panicked", "cancelled"}
    /\ Becomes(w, [last[w] EXCEPT !.pc = "cancelled"])
    /\ UNCHANGED <<merkle, datahash, calls>>

NextSteps ==
    \E w \in Writers :
        \/ \E index \in {FirstLeaf, FirstLeaf + 1, LastLeaf},
              data \in DataInputs :
              StartSetLeaf(w, index, data)
        \/ FindDatahash(w)
        \/ InsertDatahash(w)
        \/ ReadRoot(w)
        \/ ReadSibling(w)
        \/ ReadChild(w)
        \/ FindRecord(w)
        \/ InsertRecord(w)
        \/ UpdateRoot(w)
        \/ Abort(w)

SpecSteps == InitSteps /\ [][NextSteps]_vars

\* The current-root document of a merkle collection, if it is there.
SentinelOf(m) ==
    SelectSeq(m, LAMBDA d : d.oid = get_current_root_object_id)

\* The call w takes the step.
StepOf(w) == last'[w] # last[w]

\* A record addressed by its content: stored under a fresh object id, and
\* when it is internal its hash is the hash of its children.
ContentAddressed(d) ==
    /\ d.oid # get_current_root_object_id
    /\ ~leaf_check(d.index) => d.hash = hash_children(d.left, d.right)

\* new holds all of old, unchanged, and after it content-addressed records.
OnlyAdds(old, new) ==
    /\ Len(new) >= Len(old)
    /\ SubSeq(new, 1, Len(old)) = old
    /\ \A k \in (Len(old) + 1)..Len(new) : ContentAddressed(new[k])

OnlyAddsData(old, new) ==
    /\ Len(new) >= Len(old)
    /\ SubSeq(new, 1, Len(old)) = old

\* The leaf of the call and all its ancestors are stored.
PathStored(m, l) ==
    /\ \E k \in 1..Len(m) :
           /\ m[k].oid # get_current_root_object_id
           /\ m[k].index = l.index /\ m[k].hash = l.hash[1]
    /\ AncestorsServed(m, l.index, l.hash[1], l.proof[1].assist,
                       MERKLE_TREE_HEIGHT)

(***************************************************************************)
(* C23.  Within one SetLeaf the root pointer is written exactly once, as   *)
(* the last store write of the call, after the leaf record and all H       *)
(* ancestor records of the path have been inserted.  Every other step of   *)
(* the call, and so a call cancelled or failed at any of them, leaves the  *)
(* root pointer as it was and the store changed only by added              *)
(* content-addressed records.                                              *)
(***************************************************************************)
RootUpdatedLast ==
    [][\A w \in Writers :
           StepOf(w)
           => IF last'[w].pc = "cancelled"
              THEN merkle' = merkle /\ datahash' = datahash
              ELSE IF last[w].pc = "update_root"
              THEN /\ last'[w].pc = "done"
                   /\ PathStored(merkle, last[w])
                   /\ SentinelOf(merkle')
                          = <<RootDoc(last[w].record[1])>>
                   /\ datahash' = datahash
              ELSE /\ last'[w].pc # "done"
                   /\ SentinelOf(merkle') = SentinelOf(merkle)
                   /\ OnlyAdds(merkle, merkle')
                   /\ OnlyAddsData(datahash, datahash')]_vars

\* A call running alone is cancelled after it has inserted its leaf and its
\* ancestors: the root pointer is not the root the call computed.
CancelledBeforeRootUpdate ==
    \E w \in Writers :
        /\ last[w].pc = "cancelled"
        /\ \A v \in Writers \ {w} : last[v].pc = "idle"
        /\ last[w].proof # None
        /\ PathStored(merkle, last[w])
        /\ RootPointer.hash # Verify(last[w].proof[1])

\* The calls begun write distinct leaves.
DistinctLeaves ==
    \A w, v \in Writers :
        (w # v /\ last[w].pc # "idle" /\ last[v].pc # "idle")
        => last[w].index # last[v].index

\* get_leaf_and_proof succeeds at the leaf and its proof folds to the hash
\* of the root pointer.
LeafProved(got, root) ==
    /\ got.st = "Ok"
    /\ got.proof.root = root.hash
    /\ Verify(got.proof) = root.hash

(***************************************************************************)
(* C24.  Concurrent writers do not corrupt the tree: under every           *)
(* interleaving of the store operations of concurrent SetLeaf calls at     *)
(* distinct leaves of one contract, in every intermediate and final state  *)
(* every record reachable from the root pointer is stored or a default     *)
(* record, so that get_leaf_and_proof succeeds at every leaf with a proof  *)
(* that folds to the hash of the root pointer.                             *)
(***************************************************************************)
ConcurrentWritersKeepTree ==
    DistinctLeaves
    => \A index \in Leaves :
           LeafProved(get_leaf_and_proof(merkle, index), RootPointer)

\* One call has moved the root pointer while another, which walked from the
\* older root, is about to move it in turn.
StaleWriterInFlight ==
    /\ DistinctLeaves
    /\ last["w1"].pc = "done"
    /\ last["w2"].pc = "update_root"
    /\ last["w2"].root_hash # Some(RootPointer.hash)
    /\ last["w1"].root_hash = last["w2"].root_hash

\* Every record stored stays stored as it is, the root document apart, and
\* every internal record is the hash of its children.
RecordsKeptAndSound(old, new) ==
    /\ \A k \in 1..Len(old) :
           old[k].oid # get_current_root_object_id => new[k] = old[k]
    /\ \A k \in 1..Len(new) :
           new[k].index < FirstLeaf
           => new[k].hash = hash_children(new[k].left, new[k].right)

(***************************************************************************)
(* C25.  Across concurrent SetLeaf calls on one contract the last root     *)
(* pointer update wins: each update sets the root pointer to the root      *)
(* record its call computed and no other step changes it, so once all have *)
(* completed the root pointer is the root of the call that updated last.   *)
(* The records written by calls that started from an older root stay       *)
(* stored and still satisfy hash = hash_children(left, right).             *)
(***************************************************************************)
LastRootUpdateWins ==
    [][\A w \in Writers :
           StepOf(w)
           => /\ IF last[w].pc = "update_root" /\ last'[w].pc # "cancelled"
                 THEN /\ RootPointer' = last[w].record[1]
                      /\ RootPointer'.hash = Verify(last[w].proof[1])
                 ELSE RootPointer' = RootPointer
              /\ RecordsKeptAndSound(merkle, merkle')]_vars

\* Both calls have completed; the root pointer is the root of the one, and
\* the root of the other is stored but is not the current root.
DeadRootKept ==
    /\ last["w1"].pc = "done" /\ last["w2"].pc = "done"
    /\ last["w1"].root_hash = last["w2"].root_hash
    /\ RootPointer.hash = Verify(last["w1"].proof[1])
    /\ RootPointer.hash # Verify(last["w2"].proof[1])
    /\ \E k \in StoredOids(merkle, 1) :
           /\ merkle[k].index = 0
           /\ merkle[k].hash = Verify(last["w2"].proof[1])

(***************************************************************************)
(* MongoCollection::commit.  Whether commit_transaction succeeds, and with *)
(* which error it fails, is decided by the driver and the server: every    *)
(* call returns Ok, an error with one or both of the labels                *)
(* TransientTransactionError and UnknownTransactionCommitResult, or an     *)
(* error with neither.  In this specification `last` holds the position of *)
(* commit, its session, the results commit_transaction has returned so     *)
(* far and the value commit has returned; `calls` counts the calls of      *)
(* commit_transaction.                                                     *)
(***************************************************************************)
MaxCommits == 4

CommitOk == [ok |-> TRUE, labels |-> {}]

CommitError(labels) == [ok |-> FALSE, labels |-> labels]

CommitResults ==
    {CommitOk} \cup
    {CommitError(labels) :
         labels \in SUBSET {"TransientTransactionError",
                            "UnknownTransactionCommitResult"}}

\* error.contains_label(UNKNOWN_TRANSACTION_COMMIT_RESULT)
\*     || error.contains_label(TRANSIENT_TRANSACTION_ERROR)
retry_label(result) ==
    \/ "UnknownTransactionCommitResult" \in result.labels
    \/ "TransientTransactionError" \in result.labels

\* The body of the loop after commit_transaction has returned: `continue`
\* on a labelled error; else `result?`, which returns an error and, on Ok,
\* is the end of the body of a loop without a break.
after_commit_transaction(c, result) ==
    IF ~result.ok /\ retry_label(result)
    THEN [c EXCEPT !.log = Append(@, result)]
    ELSE IF ~result.ok
    THEN [c EXCEPT !.log = Append(@, result), !.pc = "returned",
                   !.returned = Some(result)]
    ELSE [c EXCEPT !.log = Append(@, result)]

InitCommit ==
    /\ merkle = <<>>
    /\ datahash = <<>>
    /\ \E with_session \in BOOLEAN :
           last = [pc |-> "commit", with_session |-> with_session,
                   session |-> with_session, log |-> <<>>,
                   returned |-> None]
    /\ calls = 0

\* commit without a session: Ok(())
CommitWithoutSession ==
    /\ last.pc = "commit" /\ ~last.session
    /\ last' = [last EXCEPT !.pc = "returned", !.returned = Some(CommitOk)]
    /\ UNCHANGED <<merkle, datahash, calls>>

\* if let Some(mut session) = self.session.take()
TakeSession ==
    /\ last.pc = "commit" /\ last.session
    /\ last' = [last EXCEPT !.pc = "loop", !.session = FALSE]
    /\ UNCHANGED <<merkle, datahash, calls>>

\* session.commit_transaction().await and the rest of the body of the loop
CommitTransaction(result) ==
    /\ last.pc = "loop"
    /\ calls < MaxCommits
    /\ last' = after_commit_transaction(last, result)
    /\ calls' = calls + 1
    /\ UNCHANGED <<merkle, datahash>>

NextCommit ==
    \/ CommitWithoutSession
    \/ TakeSession
    \/ \E result \in CommitResults : CommitTransaction(result)

SpecCommit == InitCommit /\ [][NextCommit]_vars

\* The results commit_transaction has returned before the last one.
Earlier(log) == {log[k] : k \in 1..(Len(log) - 1)}

(***************************************************************************)
(* C26.  commit with an active session re-issues commit_transaction for as *)
(* long as, and only as long as, the result is an error labelled           *)
(* TransientTransactionError or UnknownTransactionCommitResult: it never   *)
(* returns such an error and it returns the first error with neither       *)
(* label.  Without a session it performs no store operation and returns    *)
(* success.                                                                *)
(* The code refutes it: after commit_transaction has returned Ok the loop  *)
(* calls it again.                                                         *)
(***************************************************************************)
CommitRetriesLabelledErrorsOnly ==
    [][/\ calls' = calls + 1
          => \/ last.log = <<>>
             \/ (/\ ~last.log[Len(last.log)].ok
                 /\ retry_label(last.log[Len(last.log)]))
       /\ last'.returned # None
          => IF last'.with_session
             THEN /\ last'.returned = Some(last'.log[Len(last'.log)])
                  /\ ~last'.returned[1].ok
                  /\ ~retry_label(last'.returned[1])
                  /\ \A r \in Earlier(last'.log) : ~r.ok /\ retry_label(r)
             ELSE last'.returned = Some(CommitOk) /\ last'.log = <<>>]_vars

\* The status the claim gives to an error of the service.
ClaimedStatus(kind) ==
    IF kind = "InvalidArgument" THEN "INVALID_ARGUMENT"
    ELSE IF kind = "Precondition" THEN "FAILED_PRECONDITION"
    ELSE "INTERNAL"

(***************************************************************************)
(* C27.  Error-to-status mapping: an InvalidArgument error reaches the     *)
(* client as INVALID_ARGUMENT, a Precondition error (a referenced record   *)
(* is not found) as FAILED_PRECONDITION, and InconsistentData and store    *)
(* errors as INTERNAL.                                                     *)
(* The code refutes it: a Precondition error is returned as INTERNAL.      *)
(***************************************************************************)
ErrorsMappedToStatus ==
    last.resp.status \notin {"None", "OK", "PANIC"}
    => last.resp.status = ClaimedStatus(last.resp.error)

\* The RPCs that take a node index.
TakesIndex(request) ==
    request.op \in {"GetLeaf", "SetLeaf", "GetNonLeaf", "SetNonLeaf"}

(***************************************************************************)
(* C28.  Every RPC that takes a node index (GetLeaf, SetLeaf, GetNonLeaf,  *)
(* SetNonLeaf) fails with an InvalidArgument status, and writes nothing,   *)
(* when the index is greater than 2^(H+1) - 2.                             *)
(* The code refutes it: the reads fail with an internal status, SetLeaf    *)
(* stores the data-hash record first and SetNonLeaf stores the record.     *)
(***************************************************************************)
OutOfRangeIndexRejected ==
    [][(TakesIndex(last'.req) /\ last'.req.index > LastLeaf)
       => /\ last'.resp.status = "INVALID_ARGUMENT"
          /\ StoreUnchanged]_vars

\* The 32-byte hashes a request carries.
SuppliedHashes(request) ==
    CASE request.op \in {"SetRoot", "GetNonLeaf"} -> {request.hash}
      [] request.op \in {"GetLeaf", "SetLeaf"} ->
             {request.hash[k] : k \in 1..Len(request.hash)}
      [] request.op = "SetNonLeaf" ->
             {request.left, request.right}
             \cup {request.hash[k] : k \in 1..Len(request.hash)}
      [] OTHER -> {}

(***************************************************************************)
(* C29.  A 32-byte hash supplied by a client that does not encode a field  *)
(* element (its integer is at least p) is rejected with InvalidArgument;   *)
(* no request makes a hashing step abort on such a hash, and no such hash  *)
(* is ever stored.                                                         *)
(* The code refutes it: Hash::try_from checks the length only, SetLeaf     *)
(* stores the hash and hash_children then panics on it.                    *)
(***************************************************************************)
InvalidFieldElementRejected ==
    /\ last.resp.status # "PANIC"
    /\ \A k \in 1..Len(merkle) : from_repr_ok(merkle[k].hash)
    /\ \A k \in 1..Len(datahash) : from_repr_ok(datahash[k].hash)
    /\ (\E h \in SuppliedHashes(last.req) : ~from_repr_ok(h))
       => last.resp.status = "INVALID_ARGUMENT"

\* The hash a SetNonLeaf request supplies is not the hash of its children.
ChildrenMismatch(request) ==
    /\ request.hash # None
    /\ request.hash[1] # hash_children(request.left, request.right)

\* The response carries the internal record of the request.
ReturnsNonLeaf(resp, request) ==
    /\ resp.status = "OK"
    /\ resp.node.index = request.index
    /\ resp.node.hash = hash_children(request.left, request.right)
    /\ resp.node.node_data.kind = "Children"
    /\ resp.node.node_data.left_child_hash = request.left
    /\ resp.node.node_data.right_child_hash = request.right

\* record is in new, which is old, with record appended when it was missing.
StoredIfAbsent(old, new, record) ==
    IF \E k \in 1..Len(old) : ToRecord(old[k]) = record
    THEN new = old
    ELSE new = Append(old, Doc(1, record))

(***************************************************************************)
(* C30.  SetNonLeaf(index, hash?, left, right): when a hash is supplied    *)
(* and it is not hash_children(left, right), the call answers              *)
(* InvalidArgument and inserts nothing; otherwise it stores the record     *)
(* (index, hash_children(left, right), left, right) if it is not stored    *)
(* already, returns it, and leaves the root pointer as it was.             *)
(* The code refutes it: a record that is stored already is inserted again, *)
(* a child outside the field aborts the handler, and an index that is not  *)
(* internal is stored and answered with a leaf node or an error.           *)
(***************************************************************************)
SetNonLeafValidatesThenStores ==
    [][last'.req.op = "SetNonLeaf"
       => IF ChildrenMismatch(last'.req)
          THEN /\ last'.resp.status = "INVALID_ARGUMENT"
               /\ StoreUnchanged
          ELSE /\ ReturnsNonLeaf(last'.resp, last'.req)
               /\ StoredIfAbsent(merkle, merkle',
                      new_non_leaf(last'.req.index, last'.req.left,
                                   last'.req.right))
               /\ SentinelOf(merkle') = SentinelOf(merkle)
               /\ datahash' = datahash]_vars

\* depth(index), and D[H - depth(index)]
DepthOf(index) == ilog2(index + 1)

DefaultAt(index) == DEFAULT_HASH_VEC[MERKLE_TREE_HEIGHT - DepthOf(index)]

\* The synthetic record of an index: D[H - depth - 1] twice below
\* D[H - depth], zero bytes below a leaf.
SyntheticRecord(index) ==
    MerkleRecord(index, DefaultAt(index),
                 IF DepthOf(index) = MERKLE_TREE_HEIGHT THEN Zero32
                 ELSE DEFAULT_HASH_VEC[MERKLE_TREE_HEIGHT - DepthOf(index) - 1],
                 IF DepthOf(index) = MERKLE_TREE_HEIGHT THEN Zero32
                 ELSE DEFAULT_HASH_VEC[MERKLE_TREE_HEIGHT - DepthOf(index) - 1])

StoredMatch(m, index, h) ==
    \E k \in 1..Len(m) : m[k].index = index /\ m[k].hash = h

\* Hashes to look an index up with: the stored ones, every default hash and
\* a hash that is neither.
LookupHashes(index) ==
    StoredHashesAt(index) \cup {OneHash, hash_children(OneHash, OneHash)}
    \cup {DEFAULT_HASH_VEC[k] : k \in 0..MERKLE_TREE_HEIGHT}

FoundOrDefault(m, index, h, found) ==
    /\ found.st = "Ok"
    /\ IF StoredMatch(m, index, h)
       THEN /\ found.rec # None
            /\ \E k \in 1..Len(m) : ToRecord(m[k]) = found.rec[1]
            /\ found.rec[1].index = index /\ found.rec[1].hash = h
       ELSE IF h = DefaultAt(index)
            THEN found.rec = Some(SyntheticRecord(index))
            ELSE found.rec = None
    /\ must_get_merkle_record(m, index, h) =
           IF found.rec = None THEN [st |-> "Precondition"]
           ELSE [st |-> "Ok", rec |-> found.rec[1]]

(***************************************************************************)
(* C31.  Sparse-default fallback: get_merkle_record(index, hash) returns a *)
(* stored record when one matches (index, hash); on a miss it returns the  *)
(* synthetic default record if and only if hash is D[H - depth(index)],    *)
(* and None otherwise, which must_get_merkle_record turns into a           *)
(* Precondition error.  The default record has left = right =              *)
(* D[H - depth(index) - 1], zero bytes at leaf depth, so at every non-leaf *)
(* index its hash is hash_children(left, right).                           *)
(***************************************************************************)
SparseDefaultFallback ==
    /\ \A index \in 0..LastLeaf :
           \A h \in LookupHashes(index) :
               FoundOrDefault(merkle, index, h,
                              get_merkle_record(merkle, index, h))
    /\ \A index \in 0..(FirstLeaf - 1) :
           /\ get_default_record(index).st = "Ok"
           /\ get_default_record(index).rec.hash =
                  hash_children(get_default_record(index).rec.left,
                                get_default_record(index).rec.right)

\* A GetNonLeaf that missed the store was answered with the default record
\* of an internal index.
DefaultRecordServed ==
    /\ last.req.op = "GetNonLeaf"
    /\ last.req.index \in 0..(FirstLeaf - 1)
    /\ ~StoredMatch(merkle, last.req.index, last.req.hash)
    /\ last.resp.status = "OK"
    /\ last.resp.node.hash = DefaultAt(last.req.index)

\* The documents stored at the root index under generated object ids.
RootRecords(m) ==
    SelectSeq(m, LAMBDA d : d.index = 0 /\ d.oid # get_current_root_object_id)

\* The record the last call handed to update_root_merkle_record: the record
\* SetRoot looked up, or the root record SetLeaf inserted last.
LastRootUpdate(request, old, new) ==
    IF request.op = "SetRoot"
    THEN must_get_merkle_record(old, 0, request.hash).rec
    ELSE ToRecord(RootRecords(new)[Len(RootRecords(new))])

UpdatedRoot(request, resp) ==
    /\ request.op \in {"SetRoot", "SetLeaf"}
    /\ resp.status = "OK"

(***************************************************************************)
(* C32.  Root sentinel uniqueness: the merkle collection never holds more  *)
(* than one document under the reserved object id and its index is 0;      *)
(* after a call that updated the root (SetLeaf or SetRoot) there is        *)
(* exactly one, its hash, left and right are those of that update, and an  *)
(* update with the record the sentinel already holds leaves the collection *)
(* of SetRoot as it was.                                                   *)
(***************************************************************************)
RootSentinelUnique ==
    [][/\ Len(SentinelOf(merkle')) <= 1
       /\ \A k \in 1..Len(SentinelOf(merkle')) :
              SentinelOf(merkle')[k].index = 0
       /\ UpdatedRoot(last'.req, last'.resp)
          => /\ Len(SentinelOf(merkle')) = 1
             /\ ToRecord(SentinelOf(merkle')[1]) =
                    MerkleRecord(0,
                        LastRootUpdate(last'.req, merkle, merkle').hash,
                        LastRootUpdate(last'.req, merkle, merkle').left,
                        LastRootUpdate(last'.req, merkle, merkle').right)
             /\ (/\ last'.req.op = "SetRoot"
                 /\ SentinelOf(merkle) # <<>>
                 /\ ToRecord(SentinelOf(merkle)[1]) =
                        LastRootUpdate(last'.req, merkle, merkle'))
                => merkle' = merkle]_vars

\* The sentinel set by a SetLeaf has been replaced: SetRoot moved the root
\* pointer to another record than the root record SetLeaf stored last.
SentinelReplaced ==
    /\ last.req.op = "SetRoot"
    /\ last.resp.status = "OK"
    /\ RootRecords(merkle) # <<>>
    /\ Len(SentinelOf(merkle)) = 1
    /\ SentinelOf(merkle)[1].hash = last.req.hash
    /\ SentinelOf(merkle)[1].hash
           # RootRecords(merkle)[Len(RootRecords(merkle))].hash

\* The bytes poseidon::hash is called on by the last request: the data of
\* PoseidonHash, and of a SetLeaf that carries data and no hash.
HashesData(request) ==
    \/ request.op = "PoseidonHash"
    \/ request.op = "SetLeaf" /\ request.data # None /\ request.hash = None

DataOfRequest(request) ==
    IF request.op = "PoseidonHash" THEN request.data ELSE request.data[1]

ByteLength(data) == 32 * Len(data.words) + data.tail

FieldElements(data) ==
    /\ data.tail = 0
    /\ \A k \in 1..Len(data.words) : from_repr_ok(data.words[k])

(***************************************************************************)
(* C33.  Data hashing input validation: poseidon::hash answers             *)
(* InvalidArgument when the length of its input is not a multiple of 32    *)
(* bytes or a 32-byte chunk is not a field element, and otherwise absorbs  *)
(* one field element per chunk; SetLeaf rejects leaf data of 31 and of 33  *)
(* bytes, and leaf data longer than 32 bytes.                              *)
(* The code refutes the last part: SetLeaf accepts data of 64 bytes.       *)
(***************************************************************************)
DataHashingValidated ==
    /\ (HashesData(last.req) /\ ~FieldElements(DataOfRequest(last.req)))
       => last.resp.status = "INVALID_ARGUMENT"
    /\ (last.req.op = "PoseidonHash" /\ FieldElements(last.req.data))
       => /\ last.resp.status = "OK"
          /\ last.resp.hash = hash_field_elements(last.req.data.words)
    /\ (last.req.op = "SetLeaf" /\ last.req.data # None
        /\ ByteLength(last.req.data[1]) > 32)
       => last.resp.status # "OK"
    /\ \A k \in 1..Len(datahash) : ByteLength(datahash[k].data) <= 32

\* The data GetLeaf reads for a hash: of the first record stored under it.
FirstDataUnder(dh, h) ==
    dh[CHOOSE k \in 1..Len(dh) :
           /\ dh[k].hash = h
           /\ \A j \in 1..(k - 1) : dh[j].hash # h].data

(***************************************************************************)
(* C34.  The data-hash collection is a function: it holds at most one      *)
(* record per hash; insert_datahash_record for a hash that is present      *)
(* inserts nothing and returns the stored record, so the data GetLeaf      *)
(* returns for a leaf hash is the first data stored under that hash.       *)
(* The code refutes the first part: every call inserts a document.         *)
(***************************************************************************)
DataHashIsFunction ==
    /\ \A j, k \in 1..Len(datahash) :
           datahash[j].hash = datahash[k].hash => j = k
    /\ \A index \in Leaves :
           (/\ ReadLeaf(merkle, datahash, index).status = "OK"
            /\ \E k \in 1..Len(datahash) :
                   datahash[k].hash
                       = ReadLeaf(merkle, datahash, index).node.hash)
           => ReadLeaf(merkle, datahash, index).node.node_data.data
                  = FirstDataUnder(datahash,
                        ReadLeaf(merkle, datahash, index).node.hash)

\* commit_transaction has returned, and what it returned last is Ok.
Committed(c) == c.log # <<>> /\ c.log[Len(c.log)].ok

(***************************************************************************)
(* C35.  Termination of commit: when commit runs with a session and        *)
(* commit_transaction returns success, commit returns Ok after that one    *)
(* successful attempt and calls commit_transaction no more.                *)
(* The code refutes it: the loop has no exit on success, so commit has not *)
(* returned after the successful attempt and calls commit_transaction      *)
(* again.                                                                  *)
(***************************************************************************)
CommitReturnsAfterSuccess ==
    [][/\ (calls' = calls + 1 /\ Committed(last'))
          => last'.returned = Some(CommitOk)
       /\ Committed(last) => calls' = calls]_vars

\* The call has returned success.
Succeeded(l) == l.pc = "done" /\ l.resp # None /\ l.resp[1].status = "OK"

(***************************************************************************)
(* C36.  No lost update: for two concurrent SetLeaf calls on one contract  *)
(* at distinct leaves i and j with data d_i and d_j, under every           *)
(* interleaving of their store operations, once both have returned success *)
(* GetLeaf(i) returns d_i and GetLeaf(j) returns d_j under the final root. *)
(* The code refutes it: both calls walk from the same root, and the root   *)
(* pointer of the call that updates it last does not hold the leaf of the  *)
(* other.                                                                  *)
(***************************************************************************)
NoLostUpdate ==
    (/\ DistinctLeaves
     /\ \A w \in Writers : Succeeded(last[w]))
    => \A w \in Writers :
           ReadsBack(ReadLeaf(merkle, datahash, last[w].index),
                     last[w].index, last[w].data[1])

\* The leaf record the walk of the call returns: the record its last read
\* finds under the hash its parent names.
LeafWalked(m, l) ==
    must_get_merkle_record(m, child_of(l),
        IF is_left_child(l) THEN l.acc_node[1].left
        ELSE l.acc_node[1].right).rec

\* The call reads the root pointer in this step.
ReadsRoot(w) == last[w].pc = "read_root" /\ last'[w].pc = "read_sibling"

\* get_leaf_and_proof of the call returns in this step.
WalkReturns(w) == last[w].pc = "read_child" /\ last'[w].pc = "find_record"

(***************************************************************************)
(* C37.  Reader snapshot consistency: a get_leaf_and_proof that runs while *)
(* SetLeaf calls write to the same contract, under every interleaving of   *)
(* the store operations, fails or returns a leaf and a proof that fold to  *)
(* the root hash it read at its first step, which was the hash of the root *)
(* pointer at that moment; the siblings of its proof are never of another  *)
(* root.                                                                   *)
(***************************************************************************)
ReaderSnapshot ==
    [][\A w \in Writers :
           /\ ReadsRoot(w) => last'[w].root_hash = Some(RootPointer.hash)
           /\ WalkReturns(w)
              => /\ last'[w].root_hash = last[w].root_hash
                 /\ last'[w].proof[1].root = last[w].root_hash[1]
                 /\ last'[w].proof[1].index = last[w].index
                 /\ fold_proof(LeafWalked(merkle, last[w]).hash,
                               last'[w].proof[1].assist,
                               get_offset(last[w].index), 0)
                        = last[w].root_hash[1]]_vars

\* A walk has returned after the root pointer moved under it: its root is
\* not the root pointer any more, and the other call is done.
WalkOutlivedRoot ==
    \E w \in Writers :
        /\ last[w].pc = "find_record" /\ last[w].i = -1
        /\ last[w].root_hash # Some(RootPointer.hash)
        /\ \E v \in Writers \ {w} :
               /\ last[v].pc = "done"
               /\ last[v].root_hash = last[w].root_hash

\* A SetLeaf that carries data, at an index that is not a leaf index.
DataOffLeaf(request) ==
    /\ request.op = "SetLeaf"
    /\ request.data # None
    /\ ~leaf_check(request.index)

(***************************************************************************)
(* C38.  State unchanged on rejected SetLeaf: a SetLeaf that carries data  *)
(* and is rejected because its index is not a leaf index leaves the store  *)
(* as it was: no data-hash record, no merkle record and no root pointer    *)
(* has been written.                                                       *)
(* The code refutes it: the data-hash record is inserted before the index  *)
(* is checked.                                                             *)
(***************************************************************************)
RejectedSetLeafWritesNothing ==
    [][DataOffLeaf(last'.req)
       => (last'.resp.status # "OK" /\ StoreUnchanged)]_vars

ReadOps == {"GetRoot", "GetLeaf", "GetNonLeaf", "PoseidonHash"}

(***************************************************************************)
(* C39.  Reads have no effect on the store: GetRoot, GetLeaf (the fast     *)
(* path and the full walk), GetNonLeaf and PoseidonHash leave the merkle   *)
(* collection, the data-hash collection and the root pointer unchanged,    *)
(* whether they succeed or fail; GetRoot on an empty contract does not     *)
(* create the sentinel document.                                           *)
(***************************************************************************)
ReadsWriteNothing ==
    [][last'.req.op \in ReadOps
       => /\ StoreUnchanged
          /\ SentinelOf(merkle') = SentinelOf(merkle)]_vars

\* GetRoot has answered the default root on a contract that holds nothing,
\* and still holds nothing.
GetRootOnEmptyContract ==
    /\ last.req.op = "GetRoot"
    /\ last.resp.status = "OK"
    /\ last.resp.root = DefaultRootHash
    /\ merkle = <<>>
    /\ datahash = <<>>

\* No test override and no contract_id field; the x-auth-contract-id
\* metadata is present and is not the text of a contract id.
MalformedMetadataOnly(request) ==
    /\ request.op = "GetContractId"
    /\ request.test_config = None
    /\ request.contract_id = None
    /\ request.metadata # None
    /\ get_contract_id_from_request_context(request.metadata).st # "Ok"

(***************************************************************************)
(* C40.  A request with no test override and no contract_id field whose    *)
(* x-auth-contract-id metadata is present but malformed (not valid text,   *)
(* not valid base64, or not 32 bytes) is rejected with an error status; it *)
(* is never served against a contract id the caller did not present.       *)
(* The code refutes it: the error is replaced by the all-zero contract id. *)
(***************************************************************************)
MalformedMetadataRejected ==
    MalformedMetadataOnly(last.req) => last.resp.status # "OK"

====
